---- MODULE Spec2Model ----
(***************************************************************************)
(* Model of the runtime core of the Obstruct interpreter: the Type model   *)
(* with unify / substitute (type_env.rs), the Environment with its scope   *)
(* stack and slot arena (env.rs), the pointer / reference natives          *)
(* (init.rs), the diagnostic sink (main.rs) and the tree-walking           *)
(* evaluator Expr::value (expr.rs).                                        *)
(***************************************************************************)
EXTENDS Integers, Sequences, FiniteSets, TLC

VARIABLES
    env,         \* Environment { scopes, this, storage }            (env.rs:10-15)
    tenv,        \* TypeEnvironment { gens }                         (type_env.rs:5-8)
    ERROR,       \* static ERROR: "Ok" or the last reported message  (main.rs:30)
    CALL_STACK,  \* static CALL_STACK                                (main.rs:31)
    panicked,    \* TRUE once a panic! / unwrap / index failure unwound the run
    diag,        \* messages printed by report() during the last statement
    trace,       \* evaluation events of the last statement (history)
    heap,        \* history of ptr::new / ptr::free: handle -> [v, freed]
    last         \* the statement executed last and the value it produced

vars == <<env, tenv, ERROR, CALL_STACK, panicked, diag, trace, heap, last>>

(***************************************************************************)
(* Bounds of the model.                                                    *)
(***************************************************************************)
MaxArity == 2      \* longest generics list of the "arr" types that are enumerated
MaxNest == 2       \* deepest nesting of vec<...> in the enumerated types

(***************************************************************************)
(* Type (type_env.rs:57-61): Concrete { name, generics } | Generic(name).   *)
(* Both variants are records with the same fields, so that the derived     *)
(* PartialEq of the source is TLA+ equality.                               *)
(***************************************************************************)
Concrete(n, gs) == [kind |-> "Concrete", name |-> n, generics |-> gs]

Generic(n) == [kind |-> "Generic", name |-> n, generics |-> <<>>]

simple(n) == Concrete(n, <<>>)

with_generics(n, gs) == Concrete(n, gs)

nil_type == simple("arr")

I32 == simple("i32")

F64 == simple("f64")

STR == simple("str")

BOOL == simple("bool")

GenericNames == {"T", "U"}

\* The empty binding map (HashMap::new()).
NoBindings == <<>>

RECURSIVE unify(_, _, _)
RECURSIVE unify_args(_, _, _, _)
\* The positional loop of unify over ag.iter().zip(bg.iter()), from pair i on.
unify_args(ag, bg, i, bindings) ==
    IF i > Len(ag) \/ i > Len(bg)
    THEN [ok |-> TRUE, bindings |-> bindings]
    ELSE LET r == unify(ag[i], bg[i], bindings)
         IN  IF ~r.ok THEN r ELSE unify_args(ag, bg, i + 1, r.bindings)

\* Mutant: the argument-list lengths are not compared.
unify_no_len(pattern, actual, bindings) ==
    IF pattern.kind = "Generic"
    THEN IF pattern.name \in DOMAIN bindings
         THEN [ok |-> bindings[pattern.name] = actual, bindings |-> bindings]
         ELSE [ok |-> TRUE, bindings |-> (pattern.name :> actual) @@ bindings]
    ELSE IF actual.kind = "Concrete"
         THEN IF pattern.name # actual.name
              THEN [ok |-> FALSE, bindings |-> bindings]
              ELSE unify_args(pattern.generics, actual.generics, 1, bindings)
         ELSE [ok |-> FALSE, bindings |-> bindings]

\* unify(pattern, actual, &mut bindings) -> bool; the result carries the map
\* as the call leaves it (bindings made before a failure stay in it).
unify(pattern, actual, bindings) ==
    IF pattern.kind = "Generic"
    THEN IF pattern.name \in DOMAIN bindings
         THEN [ok |-> bindings[pattern.name] = actual, bindings |-> bindings]
         ELSE [ok |-> TRUE, bindings |-> (pattern.name :> actual) @@ bindings]
    ELSE IF actual.kind = "Concrete"
         THEN IF pattern.name # actual.name
                 \/ Len(pattern.generics) # Len(actual.generics)
              THEN [ok |-> FALSE, bindings |-> bindings]
              ELSE unify_args(pattern.generics, actual.generics, 1, bindings)
         ELSE [ok |-> FALSE, bindings |-> bindings]

RECURSIVE substitute(_, _)
\* Mutant: a bound Generic leaf is left as it is.
substitute_keeps_generic(t, map) ==
    IF t.kind = "Generic"
    THEN t
    ELSE Concrete(t.name, [i \in 1..Len(t.generics) |-> substitute(t.generics[i], map)])

\* substitute(t, map) -> Type
substitute(t, map) ==
    IF t.kind = "Generic"
    THEN IF t.name \in DOMAIN map THEN map[t.name] ELSE t
    ELSE Concrete(t.name, [i \in 1..Len(t.generics) |-> substitute(t.generics[i], map)])

(***************************************************************************)
(* The types the pure functions are exercised on.                          *)
(***************************************************************************)
Leaves == {I32, STR, Generic("T"), Generic("U")}

SeqsUpTo(S, n) == UNION {[1..k -> S] : k \in 0..n}

Arrs == {Concrete("arr", s) : s \in SeqsUpTo(Leaves, MaxArity)}

RECURSIVE TypesUpTo(_)
TypesUpTo(d) ==
    IF d = 0
    THEN Leaves \cup Arrs
    ELSE Leaves \cup Arrs \cup {Concrete("vec", <<t>>) : t \in TypesUpTo(d - 1)}

TypeSet == TypesUpTo(MaxNest)

BindingSet ==
    { NoBindings,
      ("T" :> I32),
      ("T" :> STR),
      ("U" :> Concrete("vec", <<I32>>)),
      ("T" :> Generic("U")),
      ("T" :> I32) @@ ("U" :> STR) }

Quiet ==
    /\ env = [scopes |-> << <<>> >>, this |-> <<>>, storage |-> <<>>]
    /\ tenv = [gens |-> << <<>> >>]
    /\ ERROR = "Ok"
    /\ CALL_STACK = <<>>
    /\ panicked = FALSE
    /\ diag = <<>>
    /\ trace = <<>>
    /\ heap = <<>>

TypeInit ==
    /\ Quiet
    /\ last = [op |-> "start"]

DoUnify ==
    /\ last.op = "start"
    /\ \E p \in TypeSet, a \in TypeSet, b \in BindingSet :
          LET r == unify(p, a, b)
          IN  last' = [op |-> "unify", pattern |-> p, actual |-> a, bindings |-> b,
                       ok |-> r.ok, out |-> r.bindings]
    /\ UNCHANGED <<env, tenv, ERROR, CALL_STACK, panicked, diag, trace, heap>>

DoSubstitute ==
    /\ last.op = "start"
    /\ \E t \in TypeSet, b \in BindingSet :
          last' = [op |-> "substitute", t |-> t, bindings |-> b,
                   out |-> substitute(t, b)]
    /\ UNCHANGED <<env, tenv, ERROR, CALL_STACK, panicked, diag, trace, heap>>

TypeNext == DoUnify \/ DoSubstitute

TypeSpec == TypeInit /\ [][TypeNext]_vars

(***************************************************************************)
(* Helpers for stating the properties of unify and substitute.             *)
(***************************************************************************)
RECURSIVE GensOf(_)
\* The names of the Generic leaves of a type.
GensOf(t) ==
    IF t.kind = "Generic"
    THEN {t.name}
    ELSE UNION {GensOf(t.generics[i]) : i \in 1..Len(t.generics)}

RECURSIVE SubtermsOf(_)
SubtermsOf(t) ==
    {t} \cup UNION {SubtermsOf(t.generics[i]) : i \in 1..Len(t.generics)}

RECURSIVE LeafPaths(_)
\* The positions (index paths) of the leaves of a type.
LeafPaths(t) ==
    IF Len(t.generics) = 0
    THEN {<<>>}
    ELSE UNION {{<<i>> \o q : q \in LeafPaths(t.generics[i])} : i \in 1..Len(t.generics)}

RECURSIVE At(_, _)
\* The subterm of t at position path.
At(t, path) == IF path = <<>> THEN t ELSE At(t.generics[Head(path)], Tail(path))

RECURSIVE SameShape(_, _, _)
\* t and u carry the same Concrete names and argument counts above the
\* positions of leaves.
SameShape(t, u, leaves) ==
    IF <<>> \in leaves
    THEN TRUE
    ELSE /\ u.kind = "Concrete"
         /\ u.name = t.name
         /\ Len(u.generics) = Len(t.generics)
         /\ \A i \in 1..Len(t.generics) :
               SameShape(t.generics[i], u.generics[i],
                         {Tail(q) : q \in {r \in leaves : Head(r) = i}})

\* pattern matches actual under an extension m of bindings that binds
\* exactly the still unbound Generic leaves of pattern.
Matchings(pattern, actual, bindings) ==
    { m \in { f @@ bindings :
                f \in [GensOf(pattern) \ DOMAIN bindings -> SubtermsOf(actual)] } :
        substitute(pattern, m) = actual }

(***************************************************************************)
(* C7: unify behaves as its reference definition. A bound Generic pattern  *)
(* succeeds iff the binding equals the actual type and leaves the map       *)
(* unchanged; an unbound Generic pattern is bound to the actual type and   *)
(* succeeds; two Concrete types succeed iff names and argument counts are  *)
(* equal and the argument pairs unify positionally, each pair under the    *)
(* bindings the earlier pairs left (equivalently: iff some extension of    *)
(* the map makes the pattern equal to the actual type, and that extension  *)
(* is the resulting map); a Concrete pattern against a Generic fails.      *)
(***************************************************************************)
UnifyMatchesReference ==
    last.op = "unify" =>
      LET p == last.pattern
          a == last.actual
          b == last.bindings
      IN  /\ (p.kind = "Generic" /\ p.name \in DOMAIN b)
                => (last.ok = (b[p.name] = a) /\ last.out = b)
          /\ (p.kind = "Generic" /\ p.name \notin DOMAIN b)
                => /\ last.ok
                   /\ DOMAIN last.out = DOMAIN b \cup {p.name}
                   /\ last.out[p.name] = a
                   /\ \A n \in DOMAIN b : last.out[n] = b[n]
          /\ (p.kind = "Concrete" /\ a.kind = "Generic") => ~last.ok
          /\ (p.kind = "Concrete" /\ a.kind = "Concrete")
                => /\ last.ok => (p.name = a.name /\ Len(p.generics) = Len(a.generics))
                   /\ last.ok = (Matchings(p, a, b) # {})
                   /\ last.ok => Matchings(p, a, b) = {last.out}
          /\ (p = Concrete("vec", <<Generic("T")>>) /\ a = Concrete("vec", <<I32>>)
                 /\ b = NoBindings)
                => (last.ok /\ last.out = ("T" :> I32))
          /\ (p = Concrete("arr", <<I32>>) /\ a = Concrete("arr", <<STR>>)) => ~last.ok

\* Witness of C7: a Concrete pattern with two arguments unified, binding T.
UnifyWitness ==
    /\ last.op = "unify"
    /\ last.pattern = Concrete("arr", <<Generic("T"), Generic("T")>>)
    /\ last.actual = Concrete("arr", <<I32, I32>>)
    /\ last.bindings = NoBindings
    /\ last.ok
    /\ last.out = ("T" :> I32)

(***************************************************************************)
(* C8: substitute(t, m) replaces every Generic leaf bound in m by its      *)
(* bound type, leaves every other leaf as it is, and keeps the Concrete    *)
(* names and argument counts above the leaves; substitute(t, {}) = t.      *)
(***************************************************************************)
SubstituteReplacesLeaves ==
    last.op = "substitute" =>
      LET t == last.t
          m == last.bindings
          out == last.out
      IN  /\ SameShape(t, out, LeafPaths(t))
          /\ \A q \in LeafPaths(t) :
                LET leaf == At(t, q)
                IN  At(out, q) = IF leaf.kind = "Generic" /\ leaf.name \in DOMAIN m
                                 THEN m[leaf.name]
                                 ELSE leaf
          /\ (m = NoBindings) => out = t
          /\ (t = Generic("T") /\ m = ("T" :> I32)) => out = I32
          /\ (t = Concrete("vec", <<Generic("T")>>) /\ m = ("T" :> I32))
                => out = Concrete("vec", <<I32>>)

\* Witness of C8: a nested type with a bound and an unbound Generic leaf.
SubstituteWitness ==
    /\ last.op = "substitute"
    /\ last.t = Concrete("arr", <<Generic("T"), Generic("U")>>)
    /\ last.bindings = ("T" :> I32)
    /\ last.out = Concrete("arr", <<I32, Generic("U")>>)

(***************************************************************************)
(* Value, Func, Variable (value.rs, variable.rs). Option<X> is the empty   *)
(* sequence (None) or a one-element sequence (Some(x)). Scalars are text,  *)
(* as in the source (Value.value: String).                                 *)
(***************************************************************************)
None == <<>>

Some(x) == <<x>>

Value(t, text) ==
    [value_type |-> t, value |-> text, value_vec |-> None, body |-> None,
     native |-> None, is_return |-> FALSE]

nil ==
    [value_type |-> nil_type, value |-> "", value_vec |-> Some(<<>>), body |-> None,
     native |-> None, is_return |-> FALSE]

Func(body, args, return_type, gens) ==
    [body |-> body, args |-> args, return_type |-> return_type, gens |-> gens]

func_val(func) ==
    [value_type |-> simple("func"), value |-> "", value_vec |-> None,
     body |-> Some(func), native |-> None, is_return |-> FALSE]

native_func(f) ==
    [value_type |-> simple("func"), value |-> "", value_vec |-> None,
     body |-> None, native |-> Some(f), is_return |-> FALSE]

Variable(value, is_mutable) == [value |-> value, is_mutable |-> is_mutable]

\* The scalar texts of the booleans (a backquote followed by t or f in the
\* source, expr.rs:103; written with @ here).
TrueText == "@t"

FalseText == "@f"

\* Type::has_tag(tag): the type carries the tag as its base name.
has_tag(t, tag) == t.name = tag

\* impl Display for Type: name, or name<g1, g2>
RECURSIVE type_display(_)
RECURSIVE join_types(_, _)
join_types(gs, i) ==
    IF i > Len(gs) THEN ""
    ELSE (IF i > 1 THEN ", " ELSE "") \o type_display(gs[i]) \o join_types(gs, i + 1)

type_display(t) ==
    IF t.kind = "Generic" \/ Len(t.generics) = 0
    THEN t.name
    ELSE t.name \o "<" \o join_types(t.generics, 1) \o ">"

(***************************************************************************)
(* Text conversions: i32 / usize to_string and str::parse.                 *)
(***************************************************************************)
MaxNum == 9        \* largest magnitude of a number whose text is parsed

\* str::parse::<i32>: Some(n) when the text is the decimal text of n.
parse_i32(text) ==
    IF \E n \in -MaxNum..MaxNum : ToString(n) = text
    THEN Some(CHOOSE n \in -MaxNum..MaxNum : ToString(n) = text)
    ELSE None

\* str::parse::<usize>: as parse_i32, and a sign is not accepted.
parse_usize(text) ==
    IF \E n \in 0..MaxNum : ToString(n) = text
    THEN Some(CHOOSE n \in 0..MaxNum : ToString(n) = text)
    ELSE None

(***************************************************************************)
(* The machine an evaluation runs on: the Environment and TypeEnvironment  *)
(* passed by &mut, the process-wide statics, and the history.              *)
(***************************************************************************)
Machine ==
    [env |-> env, tenv |-> tenv, ERROR |-> ERROR, CALL_STACK |-> CALL_STACK,
     panicked |-> panicked, diag |-> <<>>, trace |-> <<>>, heap |-> heap]

\* error(line, column, message) -> report(): prints the message and stores
\* Err(message) in ERROR (main.rs:134-190).
\* Mutant: the diagnostic is printed, the error state is left as it was.
error_printed_only(m, message) ==
    IF m.panicked THEN m ELSE [m EXCEPT !.diag = Append(@, message)]

error(m, message) ==
    IF m.panicked THEN m
    ELSE [m EXCEPT !.ERROR = message, !.diag = Append(@, message)]

\* panic!, a failed unwrap() or an index out of bounds: the run unwinds to
\* main's catch_unwind; nothing after it is evaluated.
note(m, event) == IF m.panicked THEN m ELSE [m EXCEPT !.trace = Append(@, event)]

panic(m, message) ==
    IF m.panicked THEN m
    ELSE [note(m, [ev |-> "panic", message |-> message]) EXCEPT !.panicked = TRUE]

(***************************************************************************)
(* Environment (env.rs). Arena indices are 0-based as in the source; the   *)
(* sequence storage holds slot id at position id + 1.                      *)
(***************************************************************************)
Storage(m) == m.env.storage

Slot(m, id) == m.env.storage[id + 1]

InArena(m, id) == id \in 0..(Len(m.env.storage) - 1)

Clear(storage, ids) ==
    [i \in 1..Len(storage) |-> IF (i - 1) \in ids THEN None ELSE storage[i]]

push_scope(m) ==
    IF m.panicked THEN m
    ELSE [m EXCEPT !.env.scopes = Append(@, <<>>)]

\* Mutant: the scope is neither cleared nor popped.
pop_scope_forgotten(m) == m

\* Mutant: the arena is cut back like a stack, every slot from the first one
\* of the popped scope upwards is cleared.
pop_scope_clears_tail(m) ==
    LET top == m.env.scopes[Len(m.env.scopes)]
        ids == {top[n] : n \in DOMAIN top}
    IN  [m EXCEPT !.env.storage = Clear(@, {i \in 0..(Len(@) - 1) : \E j \in ids : i >= j}),
                  !.env.scopes = SubSeq(@, 1, Len(@) - 1)]

pop_scope(m) ==
    IF m.panicked THEN m
    ELSE LET top == m.env.scopes[Len(m.env.scopes)]
             ids == {top[n] : n \in DOMAIN top}
         IN  [m EXCEPT !.env.storage = Clear(@, ids),
                       !.env.scopes = SubSeq(@, 1, Len(@) - 1)]

new_this(m, name) ==
    IF m.panicked THEN m ELSE [m EXCEPT !.env.this = Append(@, name)]

end_this(m) ==
    IF m.panicked THEN m
    ELSE [m EXCEPT !.env.this = IF Len(@) = 0 THEN @ ELSE SubSeq(@, 1, Len(@) - 1)]

new_ptr(m, item) ==
    IF m.panicked THEN [m |-> m, id |-> 0]
    ELSE [m |-> [m EXCEPT !.env.storage = Append(@, Some(item))],
          id |-> Len(m.env.storage)]

del_ptr(m, id) ==
    IF m.panicked THEN m
    ELSE IF InArena(m, id)
         THEN [m EXCEPT !.env.storage[id + 1] = None]
         ELSE error(m, "Invalid pointer ID, could not delete.")

\* Mutant: the write goes into a copy; the arena slot keeps its value.
set_ptr_copy(m, id, val) == m

set_ptr(m, id, val) ==
    IF m.panicked THEN m
    ELSE IF InArena(m, id)
         THEN IF Slot(m, id) = None
              THEN panic(m, "unwrap on None")        \* slot.as_mut().unwrap()
              ELSE LET m1 == IF ~Slot(m, id)[1].is_mutable
                             THEN error(m, "Variable not mutable, could not set pointee value")
                             ELSE m
                   IN  [m1 EXCEPT !.env.storage[id + 1] = Some([@[1] EXCEPT !.value = val])]
         ELSE error(m, "Invalid pointer ID, could not set value.")

\* get_ptr(id) -> &mut Variable; var is meaningful when the run did not panic.
get_ptr(m, id) ==
    IF m.panicked THEN [m |-> m, var |-> Variable(nil, FALSE)]
    ELSE IF InArena(m, id) /\ Slot(m, id) # None
         THEN [m |-> m, var |-> Slot(m, id)[1]]
         ELSE [m |-> panic(error(m, "Invalid or freed pointer dereference."),
                           "Invalid pointer dereference"),
               var |-> Variable(nil, FALSE)]

FreeSlots(m) == {i \in 0..(Len(m.env.storage) - 1) : Slot(m, i) = None}

Min(S) == CHOOSE x \in S : \A y \in S : x <= y

\* alloc_var: first fit over the arena, else push.
alloc_var(m, var) ==
    IF FreeSlots(m) # {}
    THEN LET i == Min(FreeSlots(m))
         IN  [m |-> [m EXCEPT !.env.storage[i + 1] = Some(var)], id |-> i]
    ELSE [m |-> [m EXCEPT !.env.storage = Append(@, Some(var))],
          id |-> Len(m.env.storage)]

declare(m, name, value, is_mutable) ==
    IF m.panicked THEN m
    ELSE LET a == alloc_var(m, Variable(value, is_mutable))
             n == Len(m.env.scopes)
         IN  IF name \in DOMAIN a.m.env.scopes[n]
             THEN error(a.m, "Variable '" \o name \o "' already defined")
             ELSE [a.m EXCEPT !.env.scopes[n] = (name :> a.id) @@ @]

\* The scopes, innermost first, that bind name to an occupied slot.
LiveScopes(m, name) ==
    {k \in 1..Len(m.env.scopes) :
        /\ name \in DOMAIN m.env.scopes[k]
        /\ InArena(m, m.env.scopes[k][name])
        /\ Slot(m, m.env.scopes[k][name]) # None}

Max(S) == CHOOSE x \in S : \A y \in S : x >= y

assign(m, name, value) ==
    IF m.panicked THEN m
    ELSE IF LiveScopes(m, name) = {}
         THEN error(m, "Undefined variable '" \o name \o "'.")
         ELSE LET id == m.env.scopes[Max(LiveScopes(m, name))][name]
              IN  IF ~Slot(m, id)[1].is_mutable
                  THEN error(m, "Variable '" \o name \o "' not mutable")
                  ELSE [m EXCEPT !.env.storage[id + 1] = Some([@[1] EXCEPT !.value = value])]

\* get(name, span) -> Variable (a clone).
get(m, name) ==
    IF m.panicked THEN [m |-> m, var |-> Variable(nil, FALSE)]
    ELSE IF LiveScopes(m, name) = {}
         THEN [m |-> error(m, "Undefined variable '" \o name \o "'."),
               var |-> Variable(nil, FALSE)]
         ELSE [m |-> m, var |-> Slot(m, m.env.scopes[Max(LiveScopes(m, name))][name])[1]]

\* What name resolves to, as get finds it, without a report: an Option.
Bound(m, name) ==
    IF LiveScopes(m, name) = {} THEN None
    ELSE Some(Slot(m, m.env.scopes[Max(LiveScopes(m, name))][name])[1])

\* The scopes that hold name in their map, whatever the slot holds.
BindingScopes(m, name) ==
    {k \in 1..Len(m.env.scopes) : name \in DOMAIN m.env.scopes[k]}

Without(f, name) == [n \in DOMAIN f \ {name} |-> f[n]]

delete(m, name) ==
    IF m.panicked THEN m
    ELSE IF BindingScopes(m, name) = {}
         THEN error(m, "Undefined variable '" \o name \o "'.")
         ELSE LET k == Max(BindingScopes(m, name))
                  id == m.env.scopes[k][name]
              IN  [m EXCEPT !.env.scopes[k] = Without(@, name),
                            !.env.storage = IF InArena(m, id) THEN Clear(@, {id}) ELSE @]

make_func(m, name, block, return_type, parameters, gens, is_mutable) ==
    IF m.panicked THEN m
    ELSE LET n == Len(m.env.scopes)
         IN  IF name \in DOMAIN m.env.scopes[n]
             THEN error(m, "'" \o name \o "' already defined")
             ELSE [m EXCEPT
                     !.env.storage =
                        Append(@, Some(Variable(func_val(Func(block, parameters,
                                                              return_type, gens)),
                                                is_mutable))),
                     !.env.scopes[n] = (name :> Len(m.env.storage)) @@ @]

declare_native(m, name, func) ==
    LET n == Len(m.env.scopes)
    IN  [m EXCEPT !.env.storage = Append(@, Some(Variable(native_func(func), FALSE))),
                  !.env.scopes[n] = (name :> Len(m.env.storage)) @@ @]

(***************************************************************************)
(* f64 scalars. The model's floats are the rationals n/d with d in         *)
(* {1, 2, 4}; f64::to_string prints them exactly ("2", "0.5", "1.25").     *)
(***************************************************************************)
Abs(n) == IF n < 0 THEN -n ELSE n

RECURSIVE Gcd(_, _)
Gcd(a, b) == IF b = 0 THEN a ELSE Gcd(b, a % b)

Ratio(n, d) ==
    LET g == Gcd(Abs(n), Abs(d))
        sgn == IF d < 0 THEN -1 ELSE 1
    IN  [n |-> sgn * (n \div g), d |-> Abs(d) \div g]

FloatDens == {1, 2, 4}

Floats == {Ratio(n, d) : n \in -(4 * MaxNum)..(4 * MaxNum), d \in FloatDens}

\* f64::to_string
f64_to_string(f) ==
    IF f.d = 1
    THEN ToString(f.n)
    ELSE (IF f.n < 0 THEN "-" ELSE "")
            \o ToString(Abs(f.n) \div f.d) \o "."
            \o (IF f.d = 2 THEN "5" ELSE IF Abs(f.n) % 4 = 1 THEN "25" ELSE "75")

\* str::parse::<f64>
parse_f64(text) ==
    IF \E f \in Floats : f64_to_string(f) = text
    THEN Some(CHOOSE f \in Floats : f64_to_string(f) = text)
    ELSE None

unwrap_or(opt, default) == IF opt = None THEN default ELSE opt[1]

\* i32 /: the quotient truncated toward zero.
i32_div(a, b) ==
    IF (a < 0) = (b < 0) THEN Abs(a) \div Abs(b) ELSE -(Abs(a) \div Abs(b))

\* i32 %: the remainder has the sign of the dividend.
i32_rem(a, b) == a - b * i32_div(a, b)

(***************************************************************************)
(* Expr (expr.rs:8-79).                                                    *)
(***************************************************************************)
Expr_Nothing == [e |-> "Nothing"]

Expr_Int(n) == [e |-> "Int", n |-> n]

Expr_Float(f) == [e |-> "Float", f |-> f]

Expr_Str(text) == [e |-> "Str", s |-> text]

Expr_Value(v) == [e |-> "Value", v |-> v]

Expr_Variable(name) == [e |-> "Variable", name |-> name]

Expr_Divide(l, r) == [e |-> "Divide", l |-> l, r |-> r]

Expr_Mod(l, r) == [e |-> "Mod", l |-> l, r |-> r]

Expr_Declare(name, var_type, is_mutable) ==
    [e |-> "Declare", name |-> name, var_type |-> var_type, is_mutable |-> is_mutable]

Expr_DeclareAndAssign(name, expr, is_mutable) ==
    [e |-> "DeclareAndAssign", name |-> name, expr |-> expr, is_mutable |-> is_mutable]

Expr_Assign(name, expr) == [e |-> "Assign", name |-> name, expr |-> expr]

Expr_Delete(name) == [e |-> "Delete", name |-> name]

Expr_StmtBlock(stmts) == [e |-> "StmtBlock", stmts |-> stmts]

Expr_StmtBlockNoScope(stmts) == [e |-> "StmtBlockNoScope", stmts |-> stmts]

Expr_Return(expr) == [e |-> "Return", expr |-> expr]

Expr_Bool(b) == [e |-> "Bool", b |-> b]

\* else_block is an Option
Expr_If(cond, if_block, else_block) ==
    [e |-> "If", cond |-> cond, if_block |-> if_block, else_block |-> else_block]

Expr_Discard(expr) == [e |-> "Discard", expr |-> expr]

Expr_While(cond, body) == [e |-> "While", cond |-> cond, body |-> body]

Expr_Vector(exprs) == [e |-> "Vector", exprs |-> exprs]

Expr_Nth(l, r) == [e |-> "Nth", l |-> l, r |-> r]

Expr_EqualEqual(l, r) == [e |-> "EqualEqual", l |-> l, r |-> r]

Expr_BangEqual(l, r) == [e |-> "BangEqual", l |-> l, r |-> r]

Expr_For(loopee, looper, block) ==
    [e |-> "For", loopee |-> loopee, looper |-> looper, block |-> block]

Expr_CallFunc(name, explicit_gens, arguments) ==
    [e |-> "CallFunc", name |-> name, explicit_gens |-> explicit_gens,
     arguments |-> arguments]

Expr_DeclareFunction(name, block, return_type, is_mutable, parameters, gens) ==
    [e |-> "DeclareFunction", name |-> name, block |-> block,
     return_type |-> return_type, is_mutable |-> is_mutable,
     parameters |-> parameters, gens |-> gens]

(***************************************************************************)
(* TypeEnvironment (type_env.rs:10-40) and the call stack (main.rs).       *)
(***************************************************************************)
push_func(m) == IF m.panicked THEN m ELSE [m EXCEPT !.tenv.gens = Append(@, <<>>)]

pop_func(m) ==
    IF m.panicked THEN m
    ELSE [m EXCEPT !.tenv.gens = IF Len(@) = 0 THEN @ ELSE SubSeq(@, 1, Len(@) - 1)]

\* get_gen(name): self.gens.last().unwrap().get(&name).unwrap().clone()
get_gen(m, name) ==
    IF m.panicked THEN [m |-> m, t |-> nil_type]
    ELSE IF Len(m.tenv.gens) = 0 \/ name \notin DOMAIN m.tenv.gens[Len(m.tenv.gens)]
         THEN [m |-> panic(m, "unwrap on None"), t |-> nil_type]
         ELSE [m |-> m, t |-> m.tenv.gens[Len(m.tenv.gens)][name]]

\* add_gen for every (k, v) of bindings
add_gens(m, bindings) ==
    IF m.panicked THEN m
    ELSE [m EXCEPT !.tenv.gens[Len(m.tenv.gens)] = bindings @@ @]

push_stack(m, name) ==
    IF m.panicked THEN m ELSE [m EXCEPT !.CALL_STACK = Append(@, name)]

pop_stack(m) ==
    IF m.panicked THEN m
    ELSE [m EXCEPT !.CALL_STACK = IF Len(@) = 0 THEN @ ELSE SubSeq(@, 1, Len(@) - 1)]

(***************************************************************************)
(* The pointer and reference natives (init.rs:62-198).                     *)
(***************************************************************************)
native_ptr_new(m, values) ==
    IF Len(values) # 1
    THEN [m |-> error(m, "ptr::new expects exactly 1 argument, got "
                          \o ToString(Len(values)) \o "."),
          v |-> nil]
    ELSE LET val == values[1]
             r == new_ptr(m, Variable(val, TRUE))
         IN  [m |-> [r.m EXCEPT !.heap = (r.id :> [v |-> val, freed |-> FALSE]) @@ @],
              v |-> Value(with_generics("ptr", <<val.value_type>>), ToString(r.id))]

native_ptr_deref(m, values) ==
    IF Len(values) # 1
    THEN [m |-> error(m, "ptr::deref expects exactly 1 argument, got "
                          \o ToString(Len(values)) \o "."),
          v |-> nil]
    ELSE LET id == parse_usize(values[1].value)
         IN  IF id = None
             THEN [m |-> panic(m, "unwrap on Err"), v |-> nil]
             ELSE LET r == get_ptr(m, id[1]) IN [m |-> r.m, v |-> r.var.value]

native_ptr_free(m, values) ==
    IF Len(values) # 1
    THEN [m |-> error(m, "ptr::free expects exactly 1 argument, got "
                          \o ToString(Len(values)) \o "."),
          v |-> nil]
    ELSE LET id == parse_usize(values[1].value)
         IN  IF id = None
             THEN [m |-> panic(m, "unwrap on Err"), v |-> nil]
             ELSE [m |-> [del_ptr(m, id[1]) EXCEPT
                            !.heap = [h \in DOMAIN @ |->
                                        IF h = id[1] THEN [@[h] EXCEPT !.freed = TRUE]
                                        ELSE @[h]]],
                   v |-> nil]

native_ref_new(m, args) ==
    IF Len(args) # 1
    THEN [m |-> error(m, "ref::new expected exactly one argument"), v |-> nil]
    ELSE LET var_name == args[1].value
         IN  IF BindingScopes(m, var_name) = {}
             THEN [m |-> error(m, "Cannot take reference of undefined variable"),
                   v |-> nil]
             ELSE LET id == m.env.scopes[Max(BindingScopes(m, var_name))][var_name]
                      r == get_ptr(m, id)
                  IN  [m |-> r.m,
                       v |-> Value(with_generics("ref", <<r.var.value.value_type>>),
                                   ToString(id))]

native_ref_deref(m, args) ==
    IF Len(args) # 1
    THEN [m |-> error(m, "ref::deref expects exactly 1 argument"), v |-> nil]
    ELSE IF ~has_tag(args[1].value_type, "ref")
         THEN [m |-> error(m, "Cannot dereference non-ref type"), v |-> nil]
         ELSE LET id == parse_usize(args[1].value)
              IN  IF id = None
                  THEN [m |-> panic(m, "unwrap on Err"), v |-> nil]
                  ELSE LET r == get_ptr(m, id[1]) IN [m |-> r.m, v |-> r.var.value]

\* native_str_nth (init.rs:305-365)
native_str_nth(m, args) ==
    IF Len(args) # 2
    THEN [m |-> error(m, "str::nth() expects 2 arguments but got "
                          \o ToString(Len(args)) \o " argument/s"),
          v |-> nil]
    ELSE IF has_tag(args[2].value_type, "i32")
    THEN [m |-> error(m, "str_nth() expects an 'i32' as right argument"), v |-> nil]
    ELSE IF has_tag(args[1].value_type, "str")
    THEN [m |-> error(m, "str_nth() expects an 'str' as left argument"), v |-> nil]
    ELSE IF parse_usize(args[2].value) = None
    THEN [m |-> panic(m, "unwrap on Err"), v |-> nil]
    ELSE IF parse_usize(args[2].value)[1] >= Len(args[1].value)
    THEN [m |-> error(m, "Out of bounds index '" \o args[2].value
                          \o "' with str of len '" \o ToString(Len(args[1].value))
                          \o "'"),
          v |-> nil]
    ELSE [m |-> m,
          v |-> Value(simple("char"),
                      SubSeq(args[1].value, parse_usize(args[2].value)[1] + 1,
                             parse_usize(args[2].value)[1] + 1))]

\* The call through the fn pointer stored in Value.native.
call_native(f, m, args) ==
    IF m.panicked THEN [m |-> m, v |-> nil]
    ELSE CASE f = "ptr::new" -> native_ptr_new(m, args)
           [] f = "ptr::deref" -> native_ptr_deref(m, args)
           [] f = "ptr::free" -> native_ptr_free(m, args)
           [] f = "ref::new" -> native_ref_new(m, args)
           [] f = "ref::deref" -> native_ref_deref(m, args)
           [] f = "str::nth" -> native_str_nth(m, args)

nil_func == Func(Expr_StmtBlock(<<>>), <<>>, nil_type, <<>>)

\* get_func's match on the Variable that get returned (g).
func_of(g, name) ==
    IF g.var.value.body = None
    THEN [m |-> error(g.m, "Variable '" \o name \o "' is not a function"),
          func |-> nil_func]
    ELSE [m |-> g.m, func |-> g.var.value.body[1]]

get_func(m, name) == func_of(get(m, name), name)

(***************************************************************************)
(* Expr::value (expr.rs:82-808). Eval(e, m) is the machine after the       *)
(* evaluation and the Value it returns. The arms that evaluate a           *)
(* sub-expression and then use its result are split into one operator per  *)
(* stage, the result of the earlier stage being the parameter of the next. *)
(***************************************************************************)
RECURSIVE Eval(_, _)
RECURSIVE eval_stmts(_, _, _, _)
RECURSIVE stmts_next(_, _, _)
RECURSIVE eval_args(_, _, _, _, _)
RECURSIVE args_next(_, _, _, _, _)
RECURSIVE bind_params(_, _, _, _, _, _)
RECURSIVE bind_param(_, _, _, _, _, _)
RECURSIVE eval_call(_, _)
RECURSIVE call_callee(_, _)
RECURSIVE call_native_with(_, _)
RECURSIVE call_func(_, _)
RECURSIVE call_body(_, _, _)
RECURSIVE eval_divide(_, _)
RECURSIVE divide_right(_, _)
RECURSIVE divide_values(_, _)
RECURSIVE eval_assign(_, _)
RECURSIVE eval_declare(_, _)
RECURSIVE declare_new(_, _)
RECURSIVE declare_made(_, _)
RECURSIVE eval_mod(_, _)
RECURSIVE mod_right(_, _)
RECURSIVE mod_values(_, _)
RECURSIVE if_branch(_, _)
RECURSIVE eval_while(_, _)
RECURSIVE while_test(_, _)
RECURSIVE while_again(_, _)
RECURSIVE eval_vector(_, _, _, _, _)
RECURSIVE vector_next(_, _, _, _)
RECURSIVE eval_for(_, _)
RECURSIVE nth_call(_, _)
RECURSIVE eval_operands(_, _)
RECURSIVE for_each(_, _, _, _)
RECURSIVE for_body(_, _, _, _)

\* for stmt in stmts { val = stmt.value(); if val.is_return { break } }
eval_stmts(stmts, i, m, val) ==
    IF i > Len(stmts) \/ m.panicked
    THEN [m |-> m, v |-> val]
    ELSE stmts_next(stmts, i, Eval(stmts[i], m))

\* The event of statement i of a block: its kind, its value, the scope depth.
StmtEvent(stmts, i, r) ==
    [ev |-> "stmt", i |-> i, kind |-> stmts[i].e, depth |-> Len(r.m.env.scopes),
     v |-> r.v]

\* Mutant: the loop over the statements never breaks.
stmts_next_no_break(stmts, i, r) ==
    eval_stmts(stmts, i + 1, note(r.m, StmtEvent(stmts, i, r)), r.v)

\* r is the value of statement i; the event records that it was evaluated.
stmts_next(stmts, i, r) ==
    IF r.v.is_return
    THEN [m |-> note(r.m, StmtEvent(stmts, i, r)), v |-> r.v]
    ELSE eval_stmts(stmts, i + 1, note(r.m, StmtEvent(stmts, i, r)), r.v)

\* arguments.iter().map(|a| a.value(env, tenv)).collect()
eval_args(name, arguments, i, m, acc) ==
    IF i > Len(arguments) \/ m.panicked
    THEN [m |-> m, vs |-> acc]
    ELSE args_next(name, arguments, i, acc,
                   Eval(arguments[i], note(m, [ev |-> "arg", name |-> name, i |-> i])))

args_next(name, arguments, i, acc, r) ==
    eval_args(name, arguments, i + 1, r.m, Append(acc, r.v))

\* The two loops for i in 0..params.len() of CallFunc (expr.rs:674-713):
\* evaluate argument i, unify, declare the parameter.
bind_params(e, params, i, m, bindings, inferring) ==
    IF i > Len(params) \/ m.panicked
    THEN [m |-> m, bindings |-> bindings]
    ELSE IF i > Len(e.arguments)
         THEN [m |-> panic(m, "index out of bounds"), bindings |-> bindings]
         ELSE bind_param(e, params, i, bindings, inferring,
                         Eval(e.arguments[i],
                              note(m, [ev |-> "arg", name |-> e.name, i |-> i])))

\* The body of one iteration, r being the evaluated argument.
bind_param(e, params, i, bindings, inferring, r) ==
    LET arg_type == r.v.value_type
        expected_type == IF inferring
                         THEN substitute(arg_type, bindings)
                         ELSE substitute(params[i].type, bindings)
        u == unify(expected_type, arg_type, bindings)
    IN  IF r.m.panicked
        THEN [m |-> r.m, bindings |-> bindings]
        ELSE IF ~u.ok
             THEN [m |-> panic(r.m, "Type mismatch"), bindings |-> u.bindings]
             ELSE bind_params(e, params, i + 1,
                              declare(r.m, params[i].name, r.v, FALSE),
                              u.bindings, inferring)

\* Expr::CallFunc (expr.rs:623-752)
eval_call(e, m) == call_callee(e, get(m, e.name))

\* g is the Variable env.get(name) returned (expr.rs:624-631).
call_callee(e, g) ==
    IF g.var.value.native # None
    THEN call_native_with(g.var.value.native[1],
                          eval_args(e.name, e.arguments, 1, g.m, <<>>))
    ELSE call_func(e, get_func(g.m, e.name))

call_native_with(f, a) == call_native(f, a.m, a.vs)

\* The generic-count check and the explicit bindings (expr.rs:633-653).
explicit_bindings(e, gens) ==
    IF Len(e.explicit_gens) # 0 /\ Len(e.explicit_gens) = Len(gens)
    THEN [n \in {gens[i] : i \in 1..Len(gens)} |->
            e.explicit_gens[Max({i \in 1..Len(gens) : gens[i] = n})]]
    ELSE NoBindings

\* The checks before the callee's scope is pushed (expr.rs:635-672): each
\* only reports; then push_scope, push_func, add_gen.
call_enter(e, m, params, gens) ==
    LET m1 == IF Len(e.explicit_gens) # 0 /\ Len(e.explicit_gens) # Len(gens)
              THEN error(m, "Function '" \o e.name \o "' expects "
                              \o ToString(Len(gens)) \o " generic parameters but got "
                              \o ToString(Len(e.explicit_gens)))
              ELSE m
        m2 == IF Len(params) # Len(e.arguments)
              THEN error(m1, "Got " \o ToString(Len(e.arguments))
                              \o " arguments for function '" \o e.name
                              \o "', expected " \o ToString(Len(params)))
              ELSE m1
    IN  add_gens(push_func(push_scope(m2)), explicit_bindings(e, gens))

\* The depths of the scope stack, the generic-binding frames, the call stack.
Depths(m) == <<Len(m.env.scopes), Len(m.tenv.gens), Len(m.CALL_STACK)>>

\* The top of the call stack (None when it is empty).
StackTop(m) ==
    IF Len(m.CALL_STACK) = 0 THEN None ELSE Some(m.CALL_STACK[Len(m.CALL_STACK)])

\* for generic in gens { if bindings.contains_key(&generic) { error } }
RECURSIVE cannot_infer(_, _, _, _)
cannot_infer(m, gens, bindings, i) ==
    IF i > Len(gens) THEN m
    ELSE cannot_infer(IF gens[i] \in DOMAIN bindings
                      THEN error(m, "Cannot infer generic type")
                      ELSE m,
                      gens, bindings, i + 1)

\* The check after the inference loop (expr.rs:690-696): it runs only
\* when gens.is_empty(), over the elements of gens.
infer_check(e, gens, b) ==
    IF Len(e.explicit_gens) = 0 /\ Len(gens) = 0
    THEN [b EXCEPT !.m = cannot_infer(b.m, gens, b.bindings, 1)]
    ELSE b

\* f is what get_func returned (expr.rs:631-713).
call_func(e, f) ==
    call_body(e, f.func,
              infer_check(e, f.func.gens,
              bind_params(e, f.func.args, 1,
                          call_enter(e, note(f.m, [ev |-> "enter", name |-> e.name,
                                                   depth |-> Depths(f.m),
                                                   stack |-> f.m.CALL_STACK]),
                                     f.func.args, f.func.gens),
                          explicit_bindings(e, f.func.gens),
                          Len(e.explicit_gens) = 0)))

\* The event of a call's return: the body's value as it came back, the top
\* of the call stack at the end of the body, and the depths after the pops.
ReturnEvent(e, real_return, r, m) ==
    [ev |-> "return", name |-> e.name, body_type |-> r.v.value_type,
     real_return |-> real_return, marker |-> r.v.is_return,
     top |-> StackTop(r.m), depth |-> Depths(m), stack |-> m.CALL_STACK]

\* Mutant: the is-return marker of the body's value is left as it is.
call_return_keeps_marker(e, real_return, r) ==
    [m |-> note(pop_stack(pop_scope(pop_func(r.m))),
                ReturnEvent(e, real_return, r, pop_stack(pop_scope(pop_func(r.m))))),
     v |-> [r.v EXCEPT !.value_type = real_return]]

\* Mutant: the callee's scope is left on the scope stack.
call_return_keeps_scope(e, real_return, r) ==
    [m |-> note(pop_stack(pop_func(r.m)),
                ReturnEvent(e, real_return, r, pop_stack(pop_func(r.m)))),
     v |-> [r.v EXCEPT !.value_type = real_return, !.is_return = FALSE]]

\* r is what the body returned (expr.rs:729-751).
call_return(e, real_return, r) ==
    LET result == [r.v EXCEPT !.value_type = real_return]
        popped == pop_stack(pop_scope(pop_func(r.m)))
        m5 == note(popped, ReturnEvent(e, real_return, r, popped))
        returned == [result EXCEPT !.is_return = FALSE]
    IN  [m |-> IF returned.value_type # real_return
               THEN error(m5, "Return type expected, got other when calling function "
                               \o e.name)
               ELSE m5,
         v |-> returned]

\* b is the machine and the bindings after the parameters (expr.rs:714-727).
call_body(e, func, b) ==
    call_return(e, substitute(func.return_type, b.bindings),
                Eval(func.body,
                     note(push_stack(b.m, e.name),
                          [ev |-> "body", name |-> e.name, bindings |-> b.bindings,
                           top |-> StackTop(push_stack(b.m, e.name))])))

\* Mutant: the quotient is taken without the test for zero; the division
\* panics as the host's integer division does.
divide_unchecked(lv, r) ==
    IF r.v.value = "0"
    THEN [m |-> panic(r.m, "attempt to divide by zero"), v |-> nil]
    ELSE [m |-> r.m, v |-> lv]

\* Expr::Divide (expr.rs:276-323)
eval_divide(e, m) == divide_right(e, Eval(e.l, m))

divide_right(e, l) == divide_values(l.v, Eval(e.r, l.m))

divide_values(lv, r) ==
    LET rv == r.v
    IN  IF lv.value_type.name = "f64" /\ rv.value_type.name = "f64"
        THEN LET zero == Ratio(0, 1)
                 rv_num == unwrap_or(parse_f64(rv.value), zero)
                 lv_num == unwrap_or(parse_f64(lv.value), zero)
             IN  IF rv_num = zero
                 THEN [m |-> error(r.m, "Undefined dividing by 0"),
                       v |-> Value(F64, f64_to_string(zero))]
                 ELSE [m |-> r.m,
                       v |-> Value(F64, f64_to_string(Ratio(lv_num.n * rv_num.d,
                                                            lv_num.d * rv_num.n)))]
        ELSE IF lv.value_type.name = "i32" /\ rv.value_type.name = "i32"
        THEN LET rv_num == unwrap_or(parse_i32(rv.value), 0)
                 lv_num == unwrap_or(parse_i32(lv.value), 0)
             IN  IF rv_num = 0
                 THEN [m |-> error(r.m, "Undefined dividing by 0"),
                       v |-> Value(I32, ToString(0))]
                 ELSE [m |-> r.m, v |-> Value(I32, ToString(i32_div(lv_num, rv_num)))]
        ELSE Eval(Expr_CallFunc("_div", <<lv.value_type, rv.value_type>>,
                                <<Expr_Value(lv), Expr_Value(rv)>>), r.m)

\* Expr::Declare (expr.rs:591-603): the declared type, through get_gen
\* when it is a generic name.
declare_type(e, m) ==
    IF e.var_type.kind = "Generic" THEN get_gen(m, e.var_type.name)
    ELSE [m |-> m, t |-> e.var_type]

eval_declare(e, m) == declare_new(e, declare_type(e, m))

\* g is the resolved type: the constructor is looked up by its name.
declare_new(e, g) == declare_made(e, get_func(g.m, type_display(g.t) \o "::new"))

\* r is the constructor's value.
declare_bound(e, r) == [m |-> declare(r.m, e.name, r.v, e.is_mutable), v |-> nil]

\* f is the constructor: its body is evaluated where the declaration stands.
declare_made(e, f) == declare_bound(e, Eval(f.func.body, f.m))

\* Expr::Mod (expr.rs:325-358)
eval_mod(e, m) == mod_right(e, Eval(e.l, m))

mod_right(e, l) == mod_values(l.v, Eval(e.r, l.m))

\* f64 % 0.0 is NaN; i32 % 0 is a panic of the host's remainder.
mod_values(lv, r) ==
    LET rv == r.v
    IN  IF lv.value_type.name = "f64" /\ rv.value_type.name = "f64"
        THEN LET rv_num == unwrap_or(parse_f64(rv.value), Ratio(1, 1))
                 lv_num == unwrap_or(parse_f64(lv.value), Ratio(0, 1))
             IN  [m |-> r.m,
                  v |-> Value(F64, IF rv_num.n = 0 THEN "NaN"
                                   ELSE f64_to_string(
                                          Ratio(i32_rem(lv_num.n * rv_num.d, rv_num.n * lv_num.d),
                                                lv_num.d * rv_num.d)))]
        ELSE IF lv.value_type.name = "i32" /\ rv.value_type.name = "i32"
        THEN LET rv_num == unwrap_or(parse_i32(rv.value), 1)
                 lv_num == unwrap_or(parse_i32(lv.value), 0)
             IN  IF rv_num = 0
                 THEN [m |-> panic(r.m, "attempt to calculate the remainder with a divisor of zero"),
                       v |-> nil]
                 ELSE [m |-> r.m, v |-> Value(I32, ToString(i32_rem(lv_num, rv_num)))]
        ELSE Eval(Expr_CallFunc("_mod", <<lv.value_type, rv.value_type>>,
                                <<Expr_Value(lv), Expr_Value(rv)>>), r.m)

\* The write of Expr::Assign, g being env.get(name) (expr.rs:543-559).
assign_to(name, g, value) ==
    IF has_tag(g.var.value.value_type, "ref")
    THEN LET id == parse_usize(g.var.value.value)
         IN  set_ptr(IF id = None THEN error(g.m, "Malformed 'ref'") ELSE g.m,
                     unwrap_or(id, 0), value)
    ELSE assign(g.m, name, value)

assign_value(name, r) == assign_to(name, get(r.m, name), r.v)

\* Expr::Assign (expr.rs:541-561)
eval_assign(e, m) ==
    [m |-> end_this(assign_value(e.name, Eval(e.expr, new_this(m, e.name)))),
     v |-> nil]

\* Expr::Variable
read_variable(g) == [m |-> g.m, v |-> g.var.value]

\* Expr::DeclareAndAssign, r being the evaluated initialiser
declare_value(e, r) == [m |-> declare(r.m, e.name, r.v, e.is_mutable), v |-> r.v]

\* Expr::StmtBlock, r being the result of the statements
block_exit(r) == [m |-> pop_scope(r.m), v |-> r.v]

\* Expr::Return, r being the evaluated operand
mark_return(r) == [m |-> r.m, v |-> [r.v EXCEPT !.is_return = TRUE]]

\* Expr::Discard, r being the evaluated expression
discard_value(r) == [m |-> r.m, v |-> nil]

\* Value::is_true (value.rs:19-28) of the value r.v: reports when the type
\* is not bool; b is the truth value, v the value tested.
is_true(r) ==
    [m |-> IF has_tag(r.v.value_type, "bool") THEN r.m
           ELSE error(r.m, "Expected 'bool' but got '" \o type_display(r.v.value_type)
                            \o "'"),
     b |-> has_tag(r.v.value_type, "bool") /\ r.v.value = TrueText,
     v |-> r.v]

\* Expr::If (expr.rs:562-570), t being is_true of the condition
if_branch(e, t) ==
    IF t.b THEN Eval(e.if_block, t.m)
    ELSE IF e.else_block # None THEN Eval(e.else_block[1], t.m)
    ELSE [m |-> t.m, v |-> nil]

\* Expr::While (expr.rs:762-767): the condition, then the body, again.
eval_while(e, m) ==
    IF m.panicked THEN [m |-> m, v |-> nil]
    ELSE while_test(e, is_true(Eval(e.cond, m)))

\* Mutant: the body runs once before the first test is acted on.
while_test_body_first(e, t) ==
    IF t.b
    THEN while_again(e, Eval(e.body, note(t.m, [ev |-> "while_cond", v |-> t.v])))
    ELSE [m |-> note(Eval(e.body, note(t.m, [ev |-> "while_cond", v |-> t.v])).m,
                     [ev |-> "while_body"]),
          v |-> nil]

\* t is is_true of the condition just evaluated.
while_test(e, t) ==
    IF t.b
    THEN while_again(e, Eval(e.body, note(t.m, [ev |-> "while_cond", v |-> t.v])))
    ELSE [m |-> note(t.m, [ev |-> "while_cond", v |-> t.v]), v |-> nil]

\* r is the value of the body, which is dropped.
while_again(e, r) == eval_while(e, note(r.m, [ev |-> "while_body"]))

\* let lv = l.value(env, tenv); let rv = r.value(env, tenv);  with l the
\* result of the left operand
operands_right(l, r) == [m |-> r.m, lv |-> l.v, rv |-> r.v]

eval_operands(e, l) == operands_right(l, Eval(e.r, l.m))

\* Expr::EqualEqual (expr.rs:402-417) on the operand values o
equal_values(o) ==
    [m |-> o.m,
     v |-> Value(BOOL, IF o.lv.value = o.rv.value /\ o.lv.value_type = o.rv.value_type
                       THEN TrueText ELSE FalseText)]

\* Expr::BangEqual (expr.rs:418-433) on the operand values o
bang_values(o) ==
    [m |-> o.m,
     v |-> Value(BOOL, IF o.lv.value # o.rv.value THEN TrueText ELSE FalseText)]

\* Type::generics (type_env.rs:79-85)
generics(t) == IF t.kind = "Concrete" THEN t.generics ELSE <<>>

\* Expr::Nth (expr.rs:768-777), r being the result of l.value(): the call
\* of <type>::nth is given the expressions l and r as its arguments.
nth_call(e, r) ==
    Eval(Expr_CallFunc(type_display(r.v.value_type) \o "::nth",
                       generics(r.v.value_type), <<e.l, e.r>>),
         r.m)

\* Expr::Vector (expr.rs:125-141): the elements left to right; the element
\* type is the type of the last element, nil_type for no element.
eval_vector(e, i, m, vec_type, values) ==
    IF m.panicked THEN [m |-> m, v |-> nil]
    ELSE IF i > Len(e.exprs)
    THEN [m |-> m,
          v |-> [value_type |-> with_generics("vec", <<vec_type>>), value |-> "",
                 value_vec |-> Some(values), body |-> None, native |-> None,
                 is_return |-> FALSE]]
    ELSE vector_next(e, i, values, Eval(e.exprs[i], m))

vector_next(e, i, values, r) ==
    eval_vector(e, i + 1, r.m, r.v.value_type, Append(values, r.v))

\* The looper of a For after its tag was tested (expr.rs:573-579).
for_tagged(r) ==
    IF has_tag(r.v.value_type, "vec") THEN r.m
    ELSE error(r.m, "looper (in for loop) must have tag 'iter'")

\* looper_value.value_vec.unwrap() (expr.rs:581), m being the machine after
\* the tag test.
for_unwrap(e, r, m) ==
    IF r.v.value_vec = None
    THEN [m |-> panic(m, "called Option::unwrap() on a None value"), v |-> nil]
    ELSE for_each(e, r.v.value_vec[1], 1, note(m, [ev |-> "for_looper", v |-> r.v]))

\* Expr::For (expr.rs:571-590): the looper is evaluated, then each element
\* is declared, the block evaluated and the loopee deleted.
for_looper(e, r) == for_unwrap(e, r, for_tagged(r))

eval_for(e, m) == for_looper(e, Eval(e.looper, m))

\* for val in ..: DeclareAndAssign(loopee, Value(val), false)
for_each(e, vals, i, m) ==
    IF i > Len(vals) \/ m.panicked
    THEN [m |-> m, v |-> nil]
    ELSE for_body(e, vals, i,
                  Eval(Expr_DeclareAndAssign(e.loopee, Expr_Value(vals[i]), FALSE), m))

\* block.value(), d being the result of the declaration; the event records
\* the element and what the loopee resolves to when the block starts.
for_block(e, vals, i, d) ==
    Eval(e.block, note(d.m, [ev |-> "for_iter", i |-> i, val |-> vals[i],
                             var |-> Bound(d.m, e.loopee)]))

\* Expr::Delete(loopee) after the block, then the next element.
for_body(e, vals, i, d) ==
    for_each(e, vals, i + 1,
             Eval(Expr_Delete(e.loopee),
                  for_block(e, vals, i, d).m).m)

Eval(e, m) ==
    IF m.panicked THEN [m |-> m, v |-> nil]
    ELSE CASE e.e = "Nothing" -> [m |-> m, v |-> nil]
           [] e.e = "Int" -> [m |-> m, v |-> Value(I32, ToString(e.n))]
           [] e.e = "Float" -> [m |-> m, v |-> Value(F64, f64_to_string(e.f))]
           [] e.e = "Str" -> [m |-> m, v |-> Value(STR, e.s)]
           [] e.e = "Value" -> [m |-> m, v |-> e.v]
           [] e.e = "Variable" -> read_variable(get(m, e.name))
           [] e.e = "Mod" -> eval_mod(e, m)
           [] e.e = "Declare" -> eval_declare(e, m)
           [] e.e = "Divide" -> eval_divide(e, m)
           [] e.e = "DeclareAndAssign" -> declare_value(e, Eval(e.expr, m))
           [] e.e = "Assign" -> eval_assign(e, m)
           [] e.e = "Delete" -> [m |-> delete(m, e.name), v |-> nil]
           [] e.e = "StmtBlock" -> block_exit(eval_stmts(e.stmts, 1, push_scope(m), nil))
           [] e.e = "StmtBlockNoScope" -> eval_stmts(e.stmts, 1, m, nil)
           [] e.e = "Return" -> mark_return(Eval(e.expr, m))
           [] e.e = "Bool" ->
                [m |-> m, v |-> Value(BOOL, IF e.b THEN TrueText ELSE FalseText)]
           [] e.e = "Discard" -> discard_value(Eval(e.expr, m))
           [] e.e = "If" -> if_branch(e, is_true(Eval(e.cond, m)))
           [] e.e = "While" -> eval_while(e, m)
           [] e.e = "EqualEqual" -> equal_values(eval_operands(e, Eval(e.l, m)))
           [] e.e = "BangEqual" -> bang_values(eval_operands(e, Eval(e.l, m)))
           [] e.e = "Nth" -> nth_call(e, Eval(e.l, m))
           [] e.e = "Vector" -> eval_vector(e, 1, m, nil_type, <<>>)
           [] e.e = "For" -> eval_for(e, m)
           [] e.e = "DeclareFunction" ->
                [m |-> make_func(m, e.name, e.block, e.return_type, e.parameters,
                                 e.gens, e.is_mutable),
                 v |-> nil]
           [] e.e = "CallFunc" -> eval_call(e, m)

(***************************************************************************)
(* The state after construction (main.rs:108-113): Environment::new(),     *)
(* TypeEnvironment::new(), DEBUG declared, and init() registering the      *)
(* natives. Of the built-ins only those the modelled programs call are     *)
(* registered.                                                             *)
(***************************************************************************)
NewMachine ==
    [env |-> [scopes |-> << <<>> >>, this |-> <<>>, storage |-> <<>>],
     tenv |-> [gens |-> << <<>> >>],
     ERROR |-> "Ok", CALL_STACK |-> <<>>, panicked |-> FALSE,
     diag |-> <<>>, trace |-> <<>>, heap |-> <<>>]

Natives == <<"ptr::new", "ptr::deref", "ptr::free", "ref::new", "ref::deref">>

RECURSIVE init(_, _)
init(m, i) ==
    IF i > Len(Natives) THEN m ELSE init(declare_native(m, Natives[i], Natives[i]), i + 1)

Booted == init(declare(NewMachine, "DEBUG", Value(BOOL, TrueText), FALSE), 1)

StorageCap == 9    \* longest arena (the text of every index must parse: <= MaxNum + 1)

MaxScopes == 2     \* deepest scope stack (the global scope included)

Boot ==
    /\ env = Booted.env
    /\ tenv = Booted.tenv
    /\ ERROR = "Ok"
    /\ CALL_STACK = <<>>
    /\ panicked = FALSE
    /\ diag = <<>>
    /\ trace = <<>>
    /\ heap = <<>>
    /\ last = [op |-> "start"]

\* The machine r.m becomes the state; obs names the statement in last.
Commit(r, obs) ==
    /\ env' = r.m.env
    /\ tenv' = r.m.tenv
    /\ ERROR' = r.m.ERROR
    /\ CALL_STACK' = r.m.CALL_STACK
    /\ panicked' = r.m.panicked
    /\ diag' = r.m.diag
    /\ trace' = r.m.trace
    /\ heap' = r.m.heap
    /\ last' = [value |-> r.v] @@ obs

\* One statement of the program is evaluated.
Step(e, obs) == Commit(Eval(e, Machine), obs)

\* A statement can run: the run has not unwound, and the arena has room.
Running == ~panicked /\ Len(env.storage) < StorageCap

(***************************************************************************)
(* Programs over the Environment: declarations, references, pointers,      *)
(* assignments, deletions and blocks, one statement per step. Each action  *)
(* takes the names its statements may use.                                 *)
(***************************************************************************)
IntVals == {1, 2}

\* The arena index a handle held by variable name stands for (None when the
\* name does not resolve or its scalar is no index).
HandleOf(name) ==
    IF LiveScopes(Machine, name) = {} THEN None
    ELSE parse_usize(get(Machine, name).var.value.value)

\* n := v, immutable or mutable as Muts allows
ExecDeclare(N, Muts) ==
    /\ Running
    /\ \E n \in N, v \in IntVals, mut \in Muts :
          Step(Expr_DeclareAndAssign(n, Expr_Int(v), mut),
               [op |-> "declare", name |-> n, arg |-> v])

\* r := &x
ExecDeclareRef(R, X) ==
    /\ Running
    /\ \E n \in R, x \in X :
          Step(Expr_DeclareAndAssign(n, Expr_CallFunc("ref::new", <<>>, <<Expr_Str(x)>>),
                                     FALSE),
               [op |-> "declare_ref", name |-> n, target |-> x])

\* p := ptr::new(v)
ExecDeclarePtr(P) ==
    /\ Running
    /\ \E n \in P, v \in IntVals :
          Step(Expr_DeclareAndAssign(n, Expr_CallFunc("ptr::new", <<>>, <<Expr_Int(v)>>),
                                     FALSE),
               [op |-> "declare_ptr", name |-> n, arg |-> v])

\* n = v
ExecAssign(N) ==
    /\ Running
    /\ \E n \in N, v \in IntVals :
          Step(Expr_Assign(n, Expr_Int(v)), [op |-> "assign", name |-> n, arg |-> v])

ExecDelete(N) ==
    /\ Running
    /\ \E n \in N : Step(Expr_Delete(n), [op |-> "delete", name |-> n])

\* A read of a variable.
ExecRead(N) ==
    /\ Running
    /\ \E n \in N : Step(Expr_Variable(n), [op |-> "read", name |-> n])

\* ptr::deref(p)
ExecDeref(P) ==
    /\ Running
    /\ \E n \in P :
          Step(Expr_CallFunc("ptr::deref", <<>>, <<Expr_Variable(n)>>),
               [op |-> "deref", name |-> n, handle |-> HandleOf(n)])

\* ptr::free(p)
ExecFree(P) ==
    /\ Running
    /\ \E n \in P :
          Step(Expr_CallFunc("ptr::free", <<>>, <<Expr_Variable(n)>>),
               [op |-> "free", name |-> n, handle |-> HandleOf(n)])

\* { n := v }: a whole StmtBlock that declares n.
ExecBlock(N) ==
    /\ Running
    /\ \E n \in N, v \in IntVals, mut \in BOOLEAN :
          Step(Expr_StmtBlock(<<Expr_DeclareAndAssign(n, Expr_Int(v), mut)>>),
               [op |-> "block", name |-> n, arg |-> v,
                before |-> Eval(Expr_Variable(n), Machine)])

\* The entry of a StmtBlock whose statements are the steps that follow.
EnterBlock ==
    /\ Running
    /\ Len(env.scopes) < MaxScopes
    /\ env' = push_scope(Machine).env
    /\ diag' = <<>>
    /\ trace' = <<>>
    /\ last' = [op |-> "enter"]
    /\ UNCHANGED <<tenv, ERROR, CALL_STACK, panicked, heap>>

\* The exit of that StmtBlock.
ExitBlock ==
    /\ Running
    /\ Len(env.scopes) > 1
    /\ env' = pop_scope(Machine).env
    /\ diag' = <<>>
    /\ trace' = <<>>
    /\ last' = [op |-> "exit"]
    /\ UNCHANGED <<tenv, ERROR, CALL_STACK, panicked, heap>>

(***************************************************************************)
(* Programs over pointers: p := ptr::new(v), ptr::deref(p), ptr::free(p),   *)
(* with declarations and blocks in between.                                *)
(***************************************************************************)
PtrNext ==
    \/ ExecDeclarePtr({"p"})
    \/ ExecDeref({"p"})
    \/ ExecFree({"p"})
    \/ ExecDeclare({"x"}, {FALSE})
    \/ EnterBlock
    \/ ExitBlock

PtrSpec == Boot /\ [][PtrNext]_vars

(***************************************************************************)
(* Programs over references: r := &x and writes through r.                 *)
(***************************************************************************)
RefNext ==
    \/ ExecDeclare({"x"}, BOOLEAN)
    \/ ExecDeclareRef({"r"}, {"x"})
    \/ ExecAssign({"x", "r"})
    \/ ExecDelete({"x"})
    \/ EnterBlock
    \/ ExitBlock

RefSpec == Boot /\ [][RefNext]_vars

(***************************************************************************)
(* Programs over blocks: { n := v } among declarations and assignments.    *)
(***************************************************************************)
BlockNext ==
    \/ ExecDeclare({"x"}, BOOLEAN)
    \/ ExecBlock({"x", "y"})
    \/ ExecAssign({"x"})
    \/ ExecDelete({"x"})
    \/ EnterBlock
    \/ ExitBlock

BlockSpec == Boot /\ [][BlockNext]_vars

(***************************************************************************)
(* Claims over pointers, references and blocks.                            *)
(***************************************************************************)

\* C3: ptr::deref of the handle returned by ptr::new(v) returns v, and once
\* ptr::free has been applied to that handle every further ptr::deref of it
\* fails with the invalid/freed-pointer error. heap records, for each handle
\* ptr::new returned, the value it was created for and whether it was freed.
PtrDerefContract ==
    (last.op = "deref" /\ last.handle # None /\ last.handle[1] \in DOMAIN heap) =>
        LET h == heap[last.handle[1]]
        IN  IF h.freed
            THEN /\ panicked
                 /\ diag = <<"Invalid or freed pointer dereference.">>
            ELSE /\ ~panicked
                 /\ diag = <<>>
                 /\ last.value = h.v

\* C4: when r holds a reference to the slot the mutable variable x resolves
\* to, the assignment r = v makes a read of x yield v, and r holds the same
\* reference afterwards.
RefWriteAliases ==
    [][LET r0 == get(Machine, "r").var
           xs == LiveScopes(Machine, "x")
           xid == env.scopes[Max(xs)]["x"]
       IN  (/\ last'.op = "assign"
            /\ last'.name = "r"
            /\ LiveScopes(Machine, "r") # {}
            /\ xs # {}
            /\ has_tag(r0.value.value_type, "ref")
            /\ parse_usize(r0.value.value) = Some(xid)
            /\ Slot(Machine, xid)[1].is_mutable)
           => /\ ~panicked'
              /\ diag' = <<>>
              /\ Eval(Expr_Variable("x"), Machine').v = Value(I32, ToString(last'.arg))
              /\ Eval(Expr_Variable("x"), Machine').m.diag = <<>>
              /\ get(Machine', "r").var = r0
              /\ env'.scopes = env.scopes]_vars

\* Witness of C4: x was declared with 1, r refers to x's slot, r = 2 has
\* just run without a diagnostic, and x reads 2.
RefWriteWitness ==
    /\ last.op = "assign"
    /\ last.name = "r"
    /\ last.arg = 2
    /\ diag = <<>>
    /\ ~panicked
    /\ LiveScopes(Machine, "x") # {}
    /\ LiveScopes(Machine, "r") # {}
    /\ has_tag(get(Machine, "r").var.value.value_type, "ref")
    /\ parse_usize(get(Machine, "r").var.value.value)
          = Some(env.scopes[Max(LiveScopes(Machine, "x"))]["x"])
    /\ get(Machine, "x").var = Variable(Value(I32, "2"), TRUE)

\* C5: after a StmtBlock that declares n, a lookup of n does not see the
\* block's variable: it reports Undefined variable and yields nil when no
\* enclosing scope binds n, and otherwise yields the enclosing binding, as a
\* lookup before the block did.
BlockVariableGone ==
    last.op = "block" =>
        LET n == last.name
            after == Eval(Expr_Variable(n), Machine)
        IN  /\ ~panicked
            /\ after.v = last.before.v
            /\ after.m.diag = last.before.m.diag
            /\ IF LiveScopes(Machine, n) = {}
               THEN /\ after.v = nil
                    /\ after.m.diag = <<"Undefined variable '" \o n \o "'.">>
               ELSE /\ after.m.diag = <<>>
                    /\ after.v = Slot(Machine, env.scopes[Max(LiveScopes(Machine, n))][n])[1].value
                    /\ after.v.value_type = I32

\* Witness of C5: the block { x := 2 } has run inside an enclosing block, no
\* scope binds x, and the lookup of x is undefined.
BlockWitness ==
    /\ last.op = "block"
    /\ last.name = "x"
    /\ last.arg = 2
    /\ Len(env.scopes) = 2
    /\ BindingScopes(Machine, "x") = {}
    /\ Eval(Expr_Variable("x"), Machine).v = nil
    /\ Eval(Expr_Variable("x"), Machine).m.diag = <<"Undefined variable 'x'.">>

(***************************************************************************)
(* Programs over interpreted functions: declarations of the functions of   *)
(* a small catalog and calls of them with literal arguments, with and      *)
(* without explicit generic arguments.                                     *)
(***************************************************************************)
MaxArgs == 2       \* most argument expressions of a call

Param(name, type) == [name |-> name, type |-> type]

\* fn <<T>> id(a: T) T { a }
IdentityDecl ==
    Expr_DeclareFunction("id", Expr_StmtBlock(<<Expr_Variable("a")>>), Generic("T"),
                         FALSE, <<Param("a", Generic("T"))>>, <<"T">>)

\* fn same(a: i32) i32 { a }
SameDecl ==
    Expr_DeclareFunction("same", Expr_StmtBlock(<<Expr_Variable("a")>>), I32,
                         FALSE, <<Param("a", I32)>>, <<>>)

\* fn wrong(a: i32) str { a }
WrongDecl ==
    Expr_DeclareFunction("wrong", Expr_StmtBlock(<<Expr_Variable("a")>>), STR,
                         FALSE, <<Param("a", I32)>>, <<>>)

Catalog == {IdentityDecl, SameDecl, WrongDecl}

ArgLiterals == {Expr_Int(5), Expr_Str("s")}

ArgLists == UNION {[1..n -> ArgLiterals] : n \in 0..MaxArgs}

ExplicitGens == {<<>>, <<I32>>}

\* fn f(...) ... { ... }
ExecDeclareFunction ==
    /\ ~panicked
    /\ \E d \in Catalog : Step(d, [op |-> "declare_function", name |-> d.name])

\* f(args) or f<<gens>>(args); func is the function the name is bound to
\* when the call starts.
ExecCall ==
    /\ ~panicked
    /\ \E d \in Catalog, gens \in ExplicitGens, args \in ArgLists :
          Step(Expr_CallFunc(d.name, gens, args),
               [op |-> "call", name |-> d.name, gens |-> gens, args |-> args,
                func |-> get(Machine, d.name).var.value.body])

CallNext == ExecDeclareFunction \/ ExecCall

CallSpec == Boot /\ [][CallNext]_vars

\* The runtime type of a literal argument.
LiteralType(e) == IF e.e = "Int" THEN I32 ELSE STR

Reported(message) == \E i \in DOMAIN diag : diag[i] = message

BodyEvaluated(name) ==
    \E i \in DOMAIN trace : trace[i].ev = "body" /\ trace[i].name = name

\* C1: a call of the generic identity function with one i32 argument and no
\* explicit generic arguments returns the argument's scalar with type i32.
IdentityReturnsI32 ==
    (/\ last.op = "call"
     /\ last.name = "id"
     /\ last.func # None
     /\ last.gens = <<>>
     /\ Len(last.args) = 1
     /\ last.args[1].e = "Int")
    => /\ ~panicked
       /\ last.value.value = ToString(last.args[1].n)
       /\ last.value.value_type = I32

\* C2: a call of an interpreted function whose number of arguments differs
\* from the number of formal parameters reports the arity error, and the
\* body of the function is not evaluated.
ArityMismatchSkipsBody ==
    (/\ last.op = "call"
     /\ last.func # None
     /\ Len(last.args) # Len(last.func[1].args))
    => /\ Reported("Got " \o ToString(Len(last.args)) \o " arguments for function '"
                    \o last.name \o "', expected " \o ToString(Len(last.func[1].args)))
       /\ ~BodyEvaluated(last.name)

\* Each argument type unifies with the declared type of its parameter, the
\* bindings accumulating from left to right.
RECURSIVE ParamsUnify(_, _, _, _)
ParamsUnify(params, args, i, bindings) ==
    IF i > Len(params) THEN TRUE
    ELSE LET u == unify(params[i].type, LiteralType(args[i]), bindings)
         IN  u.ok /\ ParamsUnify(params, args, i + 1, u.bindings)

\* C9: for every call that returns, the return-type error is reported if and
\* only if the runtime type of the body's value differs from the declared
\* return type with the call's bindings substituted; the call returns a value
\* either way. Stated for the calls of functions without generic parameters
\* whose arguments have the declared parameter types, where the bindings are
\* empty and the declared return type stands for itself.
ReturnTypeVerified ==
    (/\ last.op = "call"
     /\ last.func # None
     /\ last.func[1].gens = <<>>
     /\ Len(last.args) = Len(last.func[1].args)
     /\ ParamsUnify(last.func[1].args, last.args, 1, NoBindings)) =>
        \A i \in DOMAIN trace :
            trace[i].ev = "return" =>
                /\ ~panicked
                /\ (trace[i].body_type # trace[i].real_return)
                      <=> Reported("Return type expected, got other when calling function "
                                   \o trace[i].name)

\* C10: a call without explicit generic arguments that passes an argument
\* whose runtime type does not unify with the declared type of its parameter
\* results in a type-mismatch error.
ArgumentTypesUnified ==
    (/\ last.op = "call"
     /\ last.func # None
     /\ last.gens = <<>>
     /\ Len(last.args) = Len(last.func[1].args)
     /\ ~ParamsUnify(last.func[1].args, last.args, 1, NoBindings))
    => \/ \E i \in DOMAIN trace : trace[i] = [ev |-> "panic", message |-> "Type mismatch"]
       \/ \E i \in DOMAIN diag : diag[i] = "Type mismatch"

(***************************************************************************)
(* Programs over division: { q := l / r; q } for literal operands.         *)
(***************************************************************************)
IntOperands == {Expr_Int(n) : n \in {0, 1, 2, 3, 7}}

\* The quotient of the float operands has a denominator in FloatDens.
FloatLeft == {Expr_Float(Ratio(n, 2)) : n \in 0..3}

FloatRight == {Expr_Float(Ratio(0, 1)), Expr_Float(Ratio(1, 2)), Expr_Float(Ratio(1, 1)),
               Expr_Float(Ratio(2, 1))}

ExecDivide ==
    /\ ~panicked
    /\ \E l \in IntOperands \cup FloatLeft, r \in IntOperands \cup FloatRight :
          Step(Expr_StmtBlock(<<Expr_DeclareAndAssign("q", Expr_Divide(l, r), FALSE),
                                Expr_Variable("q")>>),
               [op |-> "divide", l |-> l, r |-> r])

DivNext == ExecDivide

DivSpec == Boot /\ [][DivNext]_vars

IsZero(e) == (e.e = "Int" /\ e.n = 0) \/ (e.e = "Float" /\ e.f = Ratio(0, 1))

\* C6: l / r with two i32 or two f64 operands and r zero reports the
\* division-by-zero error, yields the zero of the operand type, and the
\* statements after the division are evaluated: the run does not abort.
DivideByZeroRecovers ==
    (last.op = "divide" /\ last.l.e = last.r.e /\ IsZero(last.r))
    => /\ ~panicked
       /\ diag = <<"Undefined dividing by 0">>
       /\ ERROR = "Undefined dividing by 0"
       /\ last.value = Value(IF last.l.e = "Int" THEN I32 ELSE F64, "0")

\* Witness of C6: 7 / 0 has been evaluated.
DivideWitness ==
    /\ last.op = "divide"
    /\ last.l = Expr_Int(7)
    /\ last.r = Expr_Int(0)
    /\ last.value = Value(I32, "0")
    /\ ERROR = "Undefined dividing by 0"
    /\ ~panicked

(***************************************************************************)
(* Calls of interpreted functions inside a caller's block: the inference   *)
(* check, the is-return marker and the three stacks (expr.rs:631-751).     *)
(***************************************************************************)

\* fn <<T>> none() i32 { 5 }
NoneDecl ==
    Expr_DeclareFunction("none", Expr_StmtBlock(<<Expr_Int(5)>>), I32, FALSE, <<>>, <<"T">>)

\* fn early(a: i32) i32 { ret a }
EarlyDecl ==
    Expr_DeclareFunction("early", Expr_StmtBlock(<<Expr_Return(Expr_Variable("a"))>>),
                         I32, FALSE, <<Param("a", I32)>>, <<>>)

\* fn outer(a: i32) i32 { early(a) }
OuterDecl ==
    Expr_DeclareFunction("outer",
                         Expr_StmtBlock(<<Expr_CallFunc("early", <<>>, <<Expr_Variable("a")>>)>>),
                         I32, FALSE, <<Param("a", I32)>>, <<>>)

\* fn rec(b: bool) i32 { if b { rec(false) } else { 1 } }
RecDecl ==
    Expr_DeclareFunction("rec",
        Expr_StmtBlock(<<Expr_If(Expr_Variable("b"),
                                 Expr_StmtBlock(<<Expr_CallFunc("rec", <<>>, <<Expr_Bool(FALSE)>>)>>),
                                 Some(Expr_StmtBlock(<<Expr_Int(1)>>)))>>),
        I32, FALSE, <<Param("b", BOOL)>>, <<>>)

FlowCatalog == {NoneDecl, EarlyDecl, OuterDecl, RecDecl}

FlowLiterals == {Expr_Int(5), Expr_Bool(TRUE)}

FlowArgLists == UNION {[1..n -> FlowLiterals] : n \in 0..MaxArgs}

\* The four declarations above, in the order of the program text.
ExecDeclareFlow ==
    /\ ~panicked
    /\ Step(Expr_StmtBlockNoScope(<<NoneDecl, EarlyDecl, OuterDecl, RecDecl>>),
            [op |-> "declare_functions"])

\* The program text  f(args); 7;  whose statements parse() keeps as they
\* are (parser.rs:16-29): the block stops after the call when the call's
\* value has the is-return marker.
ExecFlowCall ==
    /\ ~panicked
    /\ \E d \in FlowCatalog, gens \in ExplicitGens, args \in FlowArgLists :
          Step(Expr_StmtBlock(<<Expr_CallFunc(d.name, gens, args), Expr_Int(7)>>),
               [op |-> "flow", name |-> d.name, gens |-> gens, args |-> args,
                func |-> get(Machine, d.name).var.value.body])

FlowNext == ExecDeclareFlow \/ ExecFlowCall

FlowSpec == Boot /\ [][FlowNext]_vars

Events(kind) == {i \in DOMAIN trace : trace[i].ev = kind}

RECURSIVE Mentions(_, _)
\* The generic name g occurs in the type t.
Mentions(t, g) ==
    IF t.kind = "Generic" THEN t.name = g
    ELSE \E i \in DOMAIN t.generics : Mentions(t.generics[i], g)

\* C11: a call without explicit generic arguments whose callee declares a
\* generic parameter that no parameter type mentions, and that has no
\* binding when the body starts, reports "Cannot infer generic type".
CannotInferReported ==
    (/\ last.op = "flow"
     /\ last.gens = <<>>
     /\ last.func # None
     /\ Len(last.args) = Len(last.func[1].args)
     /\ \E i \in Events("body") :
           /\ trace[i].name = last.name
           /\ \E k \in DOMAIN last.func[1].gens :
                 /\ last.func[1].gens[k] \notin DOMAIN trace[i].bindings
                 /\ \A p \in DOMAIN last.func[1].args :
                       ~Mentions(last.func[1].args[p].type, last.func[1].gens[k]))
    => Reported("Cannot infer generic type")

\* C12: the value of every call statement has the is-return marker cleared,
\* so the caller's block  f(args); 7;  goes on to its second statement and
\* yields 7, whether or not the callee executed a Return.
ReturnMarkerCleared ==
    (last.op = "flow" /\ ~panicked)
    => /\ \A i \in Events("stmt") : trace[i].kind = "CallFunc" => ~trace[i].v.is_return
       /\ last.value = Value(I32, "7")

\* The body of the callee came back with the marker set, and the caller's
\* block still yielded 7.
ReturnMarkerWitness ==
    /\ last.op = "flow" /\ ~panicked
    /\ \E i \in Events("return") : trace[i].marker
    /\ last.value = Value(I32, "7")

RECURSIVE MatchEnter(_, _)
\* The enter event of the call whose return event follows position k, with
\* pending returns of nested calls still to be matched (0 when there is none).
MatchEnter(k, pending) ==
    IF k = 0 THEN 0
    ELSE IF trace[k].ev = "return" THEN MatchEnter(k - 1, pending + 1)
    ELSE IF trace[k].ev = "enter"
         THEN IF pending = 0 THEN k ELSE MatchEnter(k - 1, pending - 1)
    ELSE MatchEnter(k - 1, pending)

\* C13: every call that returns leaves the scope stack, the generic-binding
\* frames and the call stack as they were when it started, and at the start
\* and at the end of the body the callee's name is the top of the call stack.
StacksRestored ==
    /\ \A j \in Events("return") :
          /\ MatchEnter(j - 1, 0) # 0
          /\ trace[MatchEnter(j - 1, 0)].name = trace[j].name
          /\ trace[MatchEnter(j - 1, 0)].depth = trace[j].depth
          /\ trace[MatchEnter(j - 1, 0)].stack = trace[j].stack
          /\ trace[j].top = Some(trace[j].name)
    /\ \A i \in Events("body") : trace[i].top = Some(trace[i].name)

\* A recursive call returned inside a call that returned.
StacksWitness ==
    /\ ~panicked
    /\ \E i, j \in Events("return") :
          /\ i < j
          /\ trace[i].name = trace[j].name
          /\ trace[i].depth # trace[j].depth
          /\ MatchEnter(i - 1, 0) > MatchEnter(j - 1, 0)

(***************************************************************************)
(* StmtBlock as a whole (expr.rs:513-524).                                 *)
(***************************************************************************)
MaxStmts == 3      \* most statements of a block

\* x := 1 as a statement, ret 2 in the last position, ret 2; (which the
\* parser wraps in Discard, parser.rs:67-87), and the block { ret 2 }.
Statements ==
    {Expr_DeclareAndAssign("x", Expr_Int(1), FALSE),
     Expr_Return(Expr_Int(2)),
     Expr_Discard(Expr_Return(Expr_Int(2))),
     Expr_StmtBlock(<<Expr_Return(Expr_Int(2))>>)}

StatementLists == UNION {[1..n -> Statements] : n \in 0..MaxStmts}

\* { s1 s2 ... }
ExecStmts ==
    /\ Running
    /\ \E stmts \in StatementLists :
          Step(Expr_StmtBlock(stmts), [op |-> "stmts", stmts |-> stmts])

StmtNext == ExecStmts \/ EnterBlock \/ ExitBlock

StmtSpec == Boot /\ [][StmtNext]_vars

RECURSIVE Marks(_)
\* The value of the statement has the is-return marker set.
Marks(stmt) ==
    \/ stmt.e = "Return"
    \/ stmt.e = "StmtBlock" /\ \E i \in DOMAIN stmt.stmts : Marks(stmt.stmts[i])

\* The statement events of the trace tr recorded at scope depth d.
StmtsAt(tr, d) == SelectSeq(tr, LAMBDA ev : ev.ev = "stmt" /\ ev.depth = d)

\* The number of statements the block evaluates: up to the first that marks.
Evaluated(stmts) ==
    IF \E i \in DOMAIN stmts : Marks(stmts[i])
    THEN Min({i \in DOMAIN stmts : Marks(stmts[i])})
    ELSE Len(stmts)

\* The block protocol for the block stmts evaluated from scope stack scopes
\* to scope stack after, tr being the trace and v the value it yielded.
BlockRan(stmts, scopes, after, tr, v) ==
    /\ \A i \in DOMAIN tr : tr[i].ev = "stmt" => tr[i].depth > Len(scopes)
    /\ Len(StmtsAt(tr, Len(scopes) + 1)) = Evaluated(stmts)
    /\ \A n \in 1..Evaluated(stmts) :
          /\ StmtsAt(tr, Len(scopes) + 1)[n].i = n
          /\ StmtsAt(tr, Len(scopes) + 1)[n].kind = stmts[n].e
          /\ StmtsAt(tr, Len(scopes) + 1)[n].v.is_return = Marks(stmts[n])
    /\ after = scopes
    /\ v = IF Evaluated(stmts) = 0 THEN nil
           ELSE StmtsAt(tr, Len(scopes) + 1)[Evaluated(stmts)].v

\* C14: a StmtBlock evaluates its statements in order inside one new scope,
\* up to and including the first whose value has the is-return marker,
\* leaves the scope stack as it found it, and yields the last value it
\* evaluated, nil for the empty block.
BlockProtocol ==
    [][last'.op = "stmts" => BlockRan(last'.stmts, env.scopes, env'.scopes, trace', last'.value)]_vars

\* A block of three statements stopped at its second, inside an outer block.
BlockProtocolWitness ==
    /\ last.op = "stmts"
    /\ Len(last.stmts) = 3
    /\ Evaluated(last.stmts) = 2
    /\ Len(StmtsAt(trace, Len(env.scopes) + 1)) = 2
    /\ Len(env.scopes) = 2
    /\ last.value.is_return

(***************************************************************************)
(* While (expr.rs:762-767) over two mutable booleans.                      *)
(***************************************************************************)

\* @a := true; @b := true;
ExecDeclareBools ==
    /\ Running
    /\ Step(Expr_StmtBlockNoScope(<<Expr_DeclareAndAssign("a", Expr_Bool(TRUE), TRUE),
                                    Expr_DeclareAndAssign("b", Expr_Bool(TRUE), TRUE)>>),
            [op |-> "declare_bools"])

\* n = true  or  n = false
ExecAssignBool ==
    /\ Running
    /\ \E n \in {"a", "b"}, v \in BOOLEAN :
          Step(Expr_Assign(n, Expr_Bool(v)), [op |-> "assign_bool", name |-> n, arg |-> v])

\* a, b, false, 5
Conditions == {Expr_Variable("a"), Expr_Variable("b"), Expr_Bool(FALSE), Expr_Int(5)}

\* { a = b; b = false; }  and  { a = false; b = false; ret 2 }
Bodies ==
    {Expr_StmtBlock(<<Expr_Discard(Expr_Assign("a", Expr_Variable("b"))),
                      Expr_Discard(Expr_Assign("b", Expr_Bool(FALSE)))>>),
     Expr_StmtBlock(<<Expr_Discard(Expr_Assign("a", Expr_Bool(FALSE))),
                      Expr_Discard(Expr_Assign("b", Expr_Bool(FALSE))),
                      Expr_Return(Expr_Int(2))>>)}

\* while cond { body }
ExecWhile ==
    /\ Running
    /\ \E cond \in Conditions, body \in Bodies :
          Step(Expr_While(cond, body), [op |-> "while", cond |-> cond, body |-> body])

WhileNext == ExecDeclareBools \/ ExecAssignBool \/ ExecWhile

WhileSpec == Boot /\ [][WhileNext]_vars

\* The condition and body events of the trace, in order.
Loop == SelectSeq(trace, LAMBDA ev : ev.ev \in {"while_cond", "while_body"})

IsBoolTrue(v) == v.value_type = BOOL /\ v.value = TrueText

\* The last condition or body event before position i of the trace (0 if none).
LoopEventBefore(i) ==
    IF \E k \in 1..(i - 1) : trace[k].ev \in {"while_cond", "while_body"}
    THEN Max({k \in 1..(i - 1) : trace[k].ev \in {"while_cond", "while_body"}})
    ELSE 0

\* C15: the events of a While alternate condition, body, condition, ...;
\* a body follows a condition exactly when that condition yielded boolean
\* true, every statement of the body runs after such a condition, and the
\* While yields nil.
WhileProtocol ==
    last.op = "while"
    => /\ Len(Loop) > 0
       /\ Loop[1].ev = "while_cond"
       /\ Loop[Len(Loop)].ev = "while_cond"
       /\ \A k \in DOMAIN Loop :
             IF Loop[k].ev = "while_cond"
             THEN IF IsBoolTrue(Loop[k].v)
                  THEN k < Len(Loop) /\ Loop[k + 1].ev = "while_body"
                  ELSE k = Len(Loop)
             ELSE k < Len(Loop) /\ Loop[k + 1].ev = "while_cond"
       /\ \A i \in Events("stmt") :
             /\ LoopEventBefore(i) # 0
             /\ trace[LoopEventBefore(i)].ev = "while_cond"
             /\ IsBoolTrue(trace[LoopEventBefore(i)].v)
       /\ (~IsBoolTrue(Loop[1].v) => Events("stmt") = {} /\ Len(Loop) = 1)
       /\ last.value = nil

\* A While whose body ran twice and whose body yielded a marked value.
WhileWitness ==
    /\ last.op = "while"
    /\ Len(Loop) = 5
    /\ last.value = nil

\* A While whose first condition value was not boolean true.
WhileFalseWitness ==
    /\ last.op = "while"
    /\ Len(Loop) = 1
    /\ ~IsBoolTrue(Loop[1].v)

(***************************************************************************)
(* Writes to immutable and to empty slots (env.rs:71-81, 112-136).         *)
(***************************************************************************)

Occupied(m, id) == InArena(m, id) /\ Slot(m, id) # None

\* C16: a slot that holds an immutable Variable before a step, and is still
\* occupied after it, holds the same value after it.
ImmutableValueKept ==
    [][\A id \in 0..(Len(env.storage) - 1) :
          (/\ Occupied(Machine, id)
           /\ ~Slot(Machine, id)[1].is_mutable
           /\ Occupied(Machine', id))
          => Slot(Machine', id)[1].value = Slot(Machine, id)[1].value]_vars

\* C17: the assignment r = v, r holding a reference to an arena index whose
\* slot is empty, reports "Invalid or freed pointer dereference." and leaves
\* the arena as it was.
EmptySlotWriteReports ==
    [][(/\ last'.op = "assign"
        /\ last'.name = "r"
        /\ LiveScopes(Machine, "r") # {}
        /\ has_tag(get(Machine, "r").var.value.value_type, "ref")
        /\ parse_usize(get(Machine, "r").var.value.value) # None
        /\ InArena(Machine, parse_usize(get(Machine, "r").var.value.value)[1])
        /\ Slot(Machine, parse_usize(get(Machine, "r").var.value.value)[1]) = None)
       => /\ \E i \in DOMAIN diag' : diag'[i] = "Invalid or freed pointer dereference."
          /\ env'.storage = env.storage]_vars

(***************************************************************************)
(* The arena under scope pops, declarations, deletions and pointers        *)
(* (env.rs:47-69, 154-165).                                                *)
(***************************************************************************)
\* p := ptr::new(1)
ArenaDeclarePtr ==
    /\ Running
    /\ Step(Expr_DeclareAndAssign("p", Expr_CallFunc("ptr::new", <<>>, <<Expr_Int(1)>>), FALSE),
            [op |-> "declare_ptr", name |-> "p", arg |-> 1])

\* x := 2
ArenaDeclare ==
    /\ Running
    /\ Step(Expr_DeclareAndAssign("x", Expr_Int(2), FALSE),
            [op |-> "declare", name |-> "x", arg |-> 2])

ArenaNext ==
    \/ ArenaDeclarePtr
    \/ ExecFree({"p"})
    \/ ArenaDeclare
    \/ ExecDelete({"x", "p"})
    \/ EnterBlock
    \/ ExitBlock

ArenaSpec == Boot /\ [][ArenaNext]_vars

\* The arena indices recorded in the innermost scope's name map.
TopIds == {env.scopes[Len(env.scopes)][n] : n \in DOMAIN env.scopes[Len(env.scopes)]}

\* Every slot that new_ptr allocated and del_ptr has not been applied to is
\* occupied and holds the value it was allocated with.
PtrSlotsLive ==
    \A h \in DOMAIN heap :
        ~heap[h].freed => Occupied(Machine, h) /\ Slot(Machine, h)[1].value = heap[h].v

\* C18: a scope pop empties the slots recorded in the popped map and
\* changes no other slot, and the slots of live pointers stay occupied in
\* every reachable state.
PopClearsItsSlots ==
    /\ []PtrSlotsLive
    /\ [][last'.op = "exit"
          => /\ Len(env'.storage) = Len(env.storage)
             /\ \A id \in 0..(Len(env.storage) - 1) :
                   Slot(Machine', id) = IF id \in TopIds THEN None ELSE Slot(Machine, id)
             /\ env'.scopes = SubSeq(env.scopes, 1, Len(env.scopes) - 1)]_vars

\* The block in which p := ptr::new(v) ran has been left: p is gone, the
\* slots of the block are empty, the pointer's slot is occupied.
PopClearsWitness ==
    /\ last.op = "exit"
    /\ LiveScopes(Machine, "p") = {}
    /\ \E h \in DOMAIN heap :
          /\ ~heap[h].freed
          /\ Occupied(Machine, h)
          /\ \E id \in FreeSlots(Machine) : id > h

(***************************************************************************)
(* The driver (main.rs:73-132): the top-level statements, then the result  *)
(* read from ERROR, by run when the evaluation finished and by main when   *)
(* it panicked.                                                            *)
(***************************************************************************)
Finish ==
    /\ last.op # "finish"
    /\ last' = [op |-> "finish", result |-> IF ERROR = "Ok" THEN "Ok" ELSE "Err",
                unwound |-> panicked]
    /\ diag' = <<>>
    /\ trace' = <<>>
    /\ UNCHANGED <<env, tenv, ERROR, CALL_STACK, panicked, heap>>

DriverNext ==
    \/ /\ last.op # "finish"
       /\ \/ ExecDeclare({"x"}, BOOLEAN)
          \/ ExecDeclareRef({"r"}, {"x"})
          \/ ExecAssign({"x", "r"})
          \/ ExecDelete({"x"})
    \/ Finish

DriverSpec == Boot /\ [][DriverNext]_vars

\* C19: an error state that is set stays set, every step that reports a
\* diagnostic leaves it set, and the driver's result is failure exactly when
\* it is set.
ErrorSticky ==
    [][/\ ERROR # "Ok" => ERROR' # "Ok"
       /\ diag' # <<>> => ERROR' # "Ok"
       /\ last'.op = "finish"
          => (last'.result = "Err" <=> ERROR # "Ok") /\ ERROR' = ERROR]_vars

\* The driver returned failure after an evaluation that finished, without
\* panic, with the error state set.
ErrorStickyWitness ==
    /\ last.op = "finish"
    /\ last.result = "Err"
    /\ ~last.unwound
    /\ ERROR # "Ok"

\* C20: a division evaluated while the error state is already set (the
\* step itself reports nothing) yields nil.
InertAfterError ==
    (last.op = "divide" /\ ERROR # "Ok" /\ diag = <<>>) => last.value = nil

\* C21: a step that reports the dereference of an invalid or freed arena
\* slot does not abort the evaluation.
ErrorsDoNotAbort ==
    Reported("Invalid or freed pointer dereference.") => ~panicked

(***************************************************************************)
(* Remainder next to division (expr.rs:276-358).                           *)
(***************************************************************************)

\* { q := l % r; q }
ExecMod ==
    /\ ~panicked
    /\ \E l \in IntOperands \cup FloatLeft, r \in IntOperands \cup FloatRight :
          Step(Expr_StmtBlock(<<Expr_DeclareAndAssign("q", Expr_Mod(l, r), FALSE),
                                Expr_Variable("q")>>),
               [op |-> "mod", l |-> l, r |-> r])

ModNext == ExecDivide \/ ExecMod

ModSpec == Boot /\ [][ModNext]_vars

\* C22: l % r with two i32 operands and r zero reports a diagnostic, yields
\* the i32 zero, and the statements after it are evaluated.
ModByZeroRecovers ==
    (last.op = "mod" /\ last.l.e = "Int" /\ last.r.e = "Int" /\ IsZero(last.r))
    => /\ ~panicked
       /\ diag # <<>>
       /\ last.value = Value(I32, ToString(0))

(***************************************************************************)
(* Arguments that name a variable of the caller (expr.rs:668-713).         *)
(***************************************************************************)

\* fn two(a: i32, b: i32) i32 { b }
TwoDecl ==
    Expr_DeclareFunction("two", Expr_StmtBlock(<<Expr_Variable("b")>>), I32, FALSE,
                         <<Param("a", I32), Param("b", I32)>>, <<>>)

ExecDeclareTwo ==
    /\ Running
    /\ Step(TwoDecl, [op |-> "declare_function", name |-> "two"])

\* 5 and the caller's variable a
CallerArgs == {Expr_Int(5), Expr_Variable("a")}

\* two(x, y); second is the value of y where the call stands.
ExecCallTwo ==
    /\ Running
    /\ \E x \in CallerArgs, y \in CallerArgs :
          Step(Expr_CallFunc("two", <<>>, <<x, y>>),
               [op |-> "call_two", args |-> <<x, y>>,
                second |-> Eval(y, Machine),
                func |-> get(Machine, "two").var.value.body])

ArgNext ==
    \/ ExecDeclare({"a"}, {FALSE})
    \/ ExecDelete({"a"})
    \/ ExecDeclareTwo
    \/ ExecCallTwo
    \/ EnterBlock
    \/ ExitBlock

ArgSpec == Boot /\ [][ArgNext]_vars

\* C23: two(x, y) yields the value y has in the caller's environment, also
\* when y is the name of the first formal parameter.
ArgumentsSeeCaller ==
    (/\ last.op = "call_two"
     /\ last.func # None
     /\ last.second.m.diag = <<>>
     /\ ~panicked)
    => last.value.value = last.second.v.value

(***************************************************************************)
(* Declarations of a generic type inside a generic function                *)
(* (expr.rs:591-603, type_env.rs:26-40).                                   *)
(***************************************************************************)

\* init's constructors i32::new and str::new (init.rs:13-60)
Constructors ==
    make_func(make_func(Booted, "i32::new", Expr_Int(0), I32, <<>>, <<>>, FALSE),
              "str::new", Expr_Str(""), STR, <<>>, <<>>, FALSE)

GenBoot ==
    /\ env = Constructors.env
    /\ tenv = Constructors.tenv
    /\ ERROR = "Ok"
    /\ CALL_STACK = <<>>
    /\ panicked = FALSE
    /\ diag = <<>>
    /\ trace = <<>>
    /\ heap = <<>>
    /\ last = [op |-> "start"]

\* fn <<T>> mk(a: T) T { x: T; x }
MkDecl ==
    Expr_DeclareFunction("mk",
        Expr_StmtBlock(<<Expr_Discard(Expr_Declare("x", Generic("T"), FALSE)),
                         Expr_Variable("x")>>),
        Generic("T"), FALSE, <<Param("a", Generic("T"))>>, <<"T">>)

\* fn <<T>> wrap(a: T) T { mk<<str>>("s"); x: T; x }
WrapDecl ==
    Expr_DeclareFunction("wrap",
        Expr_StmtBlock(<<Expr_Discard(Expr_CallFunc("mk", <<STR>>, <<Expr_Str("s")>>)),
                         Expr_Discard(Expr_Declare("x", Generic("T"), FALSE)),
                         Expr_Variable("x")>>),
        Generic("T"), FALSE, <<Param("a", Generic("T"))>>, <<"T">>)

ExecDeclareGen ==
    /\ ~panicked
    /\ Step(Expr_StmtBlockNoScope(<<MkDecl, WrapDecl>>), [op |-> "declare_functions"])

\* The storage length up to which the programs over the generic functions
\* declare and delete at top level.
GenCap == 12

GenRunning == ~panicked /\ Len(env.storage) < GenCap

\* x: i32  or  x: str  where the program stands
ExecDeclareTyped ==
    /\ GenRunning
    /\ \E t \in {I32, STR} :
          Step(Expr_Declare("x", t, FALSE), [op |-> "declare_typed", type |-> t])

GenArgs == {Expr_Int(5), Expr_Str("s")}

GenLists == {<<>>, <<I32>>, <<STR>>}

\* mk(v), mk<<t>>(v), wrap(v), wrap<<t>>(v)
ExecCallGen ==
    /\ ~panicked
    /\ \E name \in {"mk", "wrap"}, gens \in GenLists, arg \in GenArgs :
          Step(Expr_CallFunc(name, gens, <<arg>>),
               [op |-> "call_gen", name |-> name, gens |-> gens, arg |-> arg,
                func |-> get(Machine, name).var.value.body])

\* del x
ExecDeleteTyped ==
    /\ GenRunning
    /\ Step(Expr_Delete("x"), [op |-> "delete", name |-> "x"])

GenNext == ExecDeclareGen \/ ExecDeclareTyped \/ ExecCallGen \/ ExecDeleteTyped

GenSpec == GenBoot /\ [][GenNext]_vars

\* The value the constructor of the type t yields.
ZeroOf(t) == IF t = I32 THEN Value(I32, ToString(0)) ELSE Value(STR, "")

\* C24: a call of mk or wrap whose T is the type of the argument, given
\* explicitly or left to inference, declares x with that type: the call
\* does not abort and yields the zero value of the argument's type.
DeclareUsesCallBinding ==
    (/\ last.op = "call_gen"
     /\ last.func # None
     /\ last.gens \in {<<>>, <<LiteralType(last.arg)>>})
    => /\ ~panicked
       /\ last.value = ZeroOf(LiteralType(last.arg))

(***************************************************************************)
(* For loops (expr.rs:571-590) over vector literals, where a variable of   *)
(* the loopee's name may exist in the current or in an enclosing scope.    *)
(***************************************************************************)
ForNames == {"i", "k"}

\* The bindings a program can see: every name of a scope map, with what it
\* resolves to.
Visible(m) ==
    [n \in UNION {DOMAIN m.env.scopes[k] : k \in 1..Len(m.env.scopes)} |-> Bound(m, n)]

Loopers ==
    {Expr_Vector(<<>>), Expr_Vector(<<Expr_Int(7)>>),
     Expr_Vector(<<Expr_Int(7), Expr_Int(8)>>), Expr_Int(7)}

\* for i in looper { i }
ExecFor ==
    /\ Running
    /\ \E looper \in Loopers :
          Step(Expr_For("i", looper, Expr_StmtBlock(<<Expr_Variable("i")>>)),
               [op |-> "for", looper |-> looper, before |-> Visible(Machine)])

ForNext ==
    \/ ExecDeclare(ForNames, BOOLEAN)
    \/ ExecDelete(ForNames)
    \/ ExecFor
    \/ EnterBlock
    \/ ExitBlock

ForSpec == Boot /\ [][ForNext]_vars

\* C25: a For over a vector leaves the visible bindings as they were, and in
\* each iteration the loopee is an immutable variable holding the element.
ForRestoresBindings ==
    (last.op = "for" /\ last.looper.e = "Vector")
    => /\ ~panicked
       /\ Visible(Machine) = last.before
       /\ \A j \in 1..Len(trace) :
             trace[j].ev = "for_iter"
             => trace[j].var = Some(Variable(trace[j].val, FALSE))

(***************************************************************************)
(* Comparisons (expr.rs:402-433) of literals of the four scalar types.     *)
(***************************************************************************)
Comparands ==
    {Expr_Int(1), Expr_Int(2), Expr_Str("1"), Expr_Str("2"), Expr_Str("a"),
     Expr_Float(Ratio(1, 1)), Expr_Float(Ratio(1, 2)), Expr_Bool(TRUE), Expr_Bool(FALSE)}

\* l == r
ExecEqual ==
    /\ ~panicked
    /\ \E l \in Comparands, r \in Comparands :
          Step(Expr_EqualEqual(l, r), [op |-> "equal", l |-> l, r |-> r])

\* l != r
ExecBang ==
    /\ ~panicked
    /\ \E l \in Comparands, r \in Comparands :
          Step(Expr_BangEqual(l, r), [op |-> "bang", l |-> l, r |-> r])

CmpNext == ExecEqual \/ ExecBang

CmpSpec == Boot /\ [][CmpNext]_vars

\* C26: l != r is true exactly when l == r, on the same operands, is false.
BangNegatesEqual ==
    last.op = "bang"
    => (last.value.value = TrueText
        <=> Eval(Expr_EqualEqual(last.l, last.r), Machine).v.value = FalseText)

\* C27: every slot index recorded in a scope map is the index of an
\* occupied slot, and no two bindings record the same index.
ScopeMapsSound ==
    /\ \A k \in 1..Len(env.scopes) : \A n \in DOMAIN env.scopes[k] :
          /\ InArena(Machine, env.scopes[k][n])
          /\ Slot(Machine, env.scopes[k][n]) # None
    /\ \A k1, k2 \in 1..Len(env.scopes) :
          \A n1 \in DOMAIN env.scopes[k1], n2 \in DOMAIN env.scopes[k2] :
             env.scopes[k1][n1] = env.scopes[k2][n2] => (k1 = k2 /\ n1 = n2)

\* C28: a ptr::deref through a handle that ptr::free was applied to fails,
\* whatever was declared since: it never yields another variable's value.
FreedHandleFails ==
    (/\ last.op = "deref"
     /\ last.handle # None
     /\ last.handle[1] \in DOMAIN heap
     /\ heap[last.handle[1]].freed)
    => /\ panicked
       /\ Reported("Invalid or freed pointer dereference.")

\* C29: a declaration of a name the current scope already binds reports
\* 'already defined' and leaves the Environment as it was: the scope maps,
\* the binding and its value, and the slots of the arena.
DeclareAgainKeepsEnv ==
    [][(/\ last'.op = "declare"
        /\ diag' = <<"Variable '" \o last'.name \o "' already defined">>)
       => env' = env]_vars

(***************************************************************************)
(* Indexing (expr.rs:768-777) and the native str::nth, with a receiver     *)
(* that is a literal, a variable or a call of an interpreted function.     *)
(***************************************************************************)
NthBooted == declare_native(Booted, "str::nth", "str::nth")

NthBoot ==
    /\ env = NthBooted.env
    /\ tenv = NthBooted.tenv
    /\ ERROR = "Ok"
    /\ CALL_STACK = <<>>
    /\ panicked = FALSE
    /\ diag = <<>>
    /\ trace = <<>>
    /\ heap = <<>>
    /\ last = [op |-> "start"]

\* fn s() str { "ab" }
ExecDeclareS ==
    /\ Running
    /\ Step(Expr_DeclareFunction("s", Expr_StmtBlock(<<Expr_Str("ab")>>), STR, FALSE,
                                  <<>>, <<>>),
            [op |-> "declare_function", name |-> "s"])

CallS == Expr_CallFunc("s", <<>>, <<>>)

Receivers == {Expr_Str("ab"), CallS, Expr_Int(5), Expr_Variable("x")}

Indexes == {Expr_Int(0), Expr_Str("0"), Expr_Str("2"), CallS}

\* l[r]
ExecNth ==
    /\ Running
    /\ \E l \in Receivers, r \in Indexes :
          Step(Expr_Nth(l, r),
               [op |-> "nth", l |-> l, r |-> r, func |-> Bound(Machine, "s")])

\* str::nth(l, r)
ExecStrNth ==
    /\ Running
    /\ \E l \in Receivers, r \in Indexes :
          Step(Expr_CallFunc("str::nth", <<>>, <<l, r>>),
               [op |-> "str_nth", l |-> l, r |-> r, func |-> Bound(Machine, "s")])

NthNext ==
    \/ ExecDeclare({"x"}, {FALSE})
    \/ ExecDelete({"x"})
    \/ ExecDeclareS
    \/ ExecNth
    \/ ExecStrNth

NthSpec == NthBoot /\ [][NthNext]_vars

\* The evaluations of the call s() in the last step.
CallsOfS == {i \in Events("enter") : trace[i].name = "s"}

\* C30: the receiver of l[r] and each argument of a call are evaluated once:
\* s()[0] and str::nth(s(), 0) call s once.
ArgumentsOnce ==
    (/\ last.op \in {"nth", "str_nth"}
     /\ last.l = CallS
     /\ last.r.e # "CallFunc"
     /\ last.func # None)
    => Cardinality(CallsOfS) = 1

====
